---- MODULE Spec2Model ----
(***************************************************************************)
(* Quoridor rule engine (quoridor.py): walls, pawn moves, wall legality,   *)
(* path search, the Game object and the Quoridor game loop.                *)
(*                                                                         *)
(* Coordinates.  A pawn cell is <<x, y>> with x, y in 0..8.  The source    *)
(* keeps walls in half-integer coordinates (lattice point p is stored as   *)
(* p + 0.5); every wall coordinate below is DOUBLED so that it is an       *)
(* integer: a real wall end (a, b) is stored as <<2a+1, 2b+1>> and a       *)
(* "fake" probe end (x, y) as <<2x, 2y>>.  Doubling preserves every        *)
(* comparison (<, =) the source makes.                                     *)
(***************************************************************************)
EXTENDS Integers, Sequences, FiniteSets, TLC

\* ------------------------------------------------------------------ constants
N == 9
NoPlayer == 0 - 1
UNREACHABLE == 1000000
DEFAULT == << <<0 - 1, 0>>, <<1, 0>>, <<0, 0 - 1>>, <<0, 1>> >>
Dirs == {DEFAULT[i] : i \in 1..4}
Cells == (0..(N - 1)) \X (0..(N - 1))
Lattice == (0..(N - 2)) \X (0..(N - 2))

\* ------------------------------------------------------------------ Wall
\* Wall.__init__: shift by 0.5 unless fake, then order start/end.
Wall(start, end, fake) ==
    LET off == IF fake THEN 0 ELSE 1
        s == <<2 * start[1] + off, 2 * start[2] + off>>
        e == <<2 * end[1] + off, 2 * end[2] + off>>
    IN  IF s[1] > e[1] \/ s[2] > e[2]
        THEN [start |-> e, end |-> s]
        ELSE [start |-> s, end |-> e]

\* Wall.overlaps without its second test (a collinear horizontal wall whose
\* end lies inside this one).
overlaps_no_second_test(self, other) ==
    \/ (self.start = other.start /\ self.end = other.end)
    \/ (/\ self.start[1] < other.start[1] /\ other.start[1] < self.end[1]
        /\ self.start[2] = self.end[2] /\ self.end[2] = other.end[2]
        /\ other.end[2] = other.start[2])
    \/ (/\ self.start[2] < other.end[2] /\ other.end[2] < self.end[2]
        /\ self.start[1] = self.end[1] /\ self.end[1] = other.end[1]
        /\ other.end[1] = other.start[1])
    \/ (/\ self.start[2] < other.start[2] /\ other.start[2] < self.end[2]
        /\ self.start[1] = self.end[1] /\ self.end[1] = other.end[1]
        /\ other.end[1] = other.start[1])
    \/ (/\ self.start[2] < other.start[2] /\ other.start[2] < self.end[2]
        /\ other.start[1] < self.start[1] /\ self.start[1] < other.end[1])
    \/ (/\ self.start[1] < other.start[1] /\ other.start[1] < self.end[1]
        /\ other.start[2] < self.start[2] /\ self.start[2] < other.end[2])

\* Wall.overlaps with its sixth test taking a wall that ends on this one (a T)
\* for a crossing.
overlaps_touching(self, other) ==
    \/ (self.start = other.start /\ self.end = other.end)
    \/ (/\ self.start[1] < other.end[1] /\ other.end[1] < self.end[1]
        /\ self.start[2] = self.end[2] /\ self.end[2] = other.end[2]
        /\ other.end[2] = other.start[2])
    \/ (/\ self.start[1] < other.start[1] /\ other.start[1] < self.end[1]
        /\ self.start[2] = self.end[2] /\ self.end[2] = other.end[2]
        /\ other.end[2] = other.start[2])
    \/ (/\ self.start[2] < other.end[2] /\ other.end[2] < self.end[2]
        /\ self.start[1] = self.end[1] /\ self.end[1] = other.end[1]
        /\ other.end[1] = other.start[1])
    \/ (/\ self.start[2] < other.start[2] /\ other.start[2] < self.end[2]
        /\ self.start[1] = self.end[1] /\ self.end[1] = other.end[1]
        /\ other.end[1] = other.start[1])
    \/ (/\ self.start[2] < other.start[2] /\ other.start[2] < self.end[2]
        /\ other.start[1] <= self.start[1] /\ self.start[1] <= other.end[1])
    \/ (/\ self.start[1] < other.start[1] /\ other.start[1] < self.end[1]
        /\ other.start[2] < self.start[2] /\ self.start[2] < other.end[2])

\* Wall.overlaps: the seven tests of the source, in order.
overlaps(self, other) ==
    \/ (self.start = other.start /\ self.end = other.end)
    \/ (/\ self.start[1] < other.end[1] /\ other.end[1] < self.end[1]
        /\ self.start[2] = self.end[2] /\ self.end[2] = other.end[2]
        /\ other.end[2] = other.start[2])
    \/ (/\ self.start[1] < other.start[1] /\ other.start[1] < self.end[1]
        /\ self.start[2] = self.end[2] /\ self.end[2] = other.end[2]
        /\ other.end[2] = other.start[2])
    \/ (/\ self.start[2] < other.end[2] /\ other.end[2] < self.end[2]
        /\ self.start[1] = self.end[1] /\ self.end[1] = other.end[1]
        /\ other.end[1] = other.start[1])
    \/ (/\ self.start[2] < other.start[2] /\ other.start[2] < self.end[2]
        /\ self.start[1] = self.end[1] /\ self.end[1] = other.end[1]
        /\ other.end[1] = other.start[1])
    \/ (/\ self.start[2] < other.start[2] /\ other.start[2] < self.end[2]
        /\ other.start[1] < self.start[1] /\ self.start[1] < other.end[1])
    \/ (/\ self.start[1] < other.start[1] /\ other.start[1] < self.end[1]
        /\ other.start[2] < self.start[2] /\ self.start[2] < other.end[2])

\* Validator.any_overlap: does the segment start-end overlap a placed wall.
any_overlap(ws, start, end, fake) ==
    LET check == Wall(start, end, fake)
    IN  \E i \in 1..Len(ws) : overlaps(check, ws[i])

\* ------------------------------------------------------------------ Player
\* Player.__init__: the goal condition from the starting position.
\* (-1 marks the unconstrained axis.)
PlayerWins(position) ==
    IF position[2] = 4 THEN <<8 - position[1], 0 - 1>>
    ELSE <<0 - 1, 8 - position[2]>>

\* Game.__init__: starting cells of the players, index 0..n-1.
StartPos(n) ==
    IF n = 2 THEN [i \in 0..1 |-> IF i = 0 THEN <<4, 0>> ELSE <<4, 8>>]
    ELSE [i \in 0..3 |-> CASE i = 0 -> <<4, 0>>
                           [] i = 1 -> <<8, 4>>
                           [] i = 2 -> <<4, 8>>
                           [] OTHER -> <<0, 4>>]

\* Game.__init__: wall budget of each player.
StartWalls(n) == IF n = 2 THEN 10 ELSE 5

\* players[i].wins
WinsOf(n, i) == PlayerWins(StartPos(n)[i])

\* The test of Player.setpos, Validator.way_exists and Validator.bfs.
AtGoal(node, dest) == node[1] = dest[1] \/ node[2] = dest[2]

\* ------------------------------------------------------------------ moves
InBoard(x, y) == 0 <= x /\ x < N /\ 0 <= y /\ y < N

\* Validator.possible_moves without the jump and the side steps: nothing is
\* offered in the direction of a neighbouring pawn.
MovesDir_no_jump(g, ws, pos, d) ==
    LET nb == <<pos[1] + d[1], pos[2] + d[2]>>
    IN  IF ~InBoard(nb[1], nb[2]) THEN << >>
        ELSE IF g[nb] # NoPlayer THEN << >>
        ELSE IF ~any_overlap(ws, pos, nb, TRUE) THEN << nb >>
        ELSE << >>

\* Validator.possible_moves stepping onto the neighbouring cell whether or not a
\* pawn stands on it.
MovesDir_onto_pawn(g, ws, pos, d) ==
    LET nb == <<pos[1] + d[1], pos[2] + d[2]>>
    IN  IF ~InBoard(nb[1], nb[2]) THEN << >>
        ELSE IF ~any_overlap(ws, pos, nb, TRUE) THEN << nb >>
        ELSE << >>

\* Validator.possible_moves, the body of the loop for one direction d.
MovesDir(g, ws, pos, d) ==
    LET x == pos[1]
        y == pos[2]
        dx == d[1]
        dy == d[2]
        s1 == IF dy # 0 /\ x + 1 < N /\ g[<<x + 1, y + dy>>] = NoPlayer
                 /\ ~any_overlap(ws, pos, <<x + 1, y + dy>>, TRUE)
              THEN << <<x + 1, y + dy>> >> ELSE << >>
        s2 == IF dy # 0 /\ x - 1 >= 0 /\ g[<<x - 1, y + dy>>] = NoPlayer
                 /\ ~any_overlap(ws, pos, <<x - 1, y + dy>>, TRUE)
              THEN << <<x - 1, y + dy>> >> ELSE << >>
        s3 == IF dx # 0 /\ y + 1 < N /\ g[<<x + dx, y + 1>>] = NoPlayer
                 /\ ~any_overlap(ws, pos, <<x + dx, y + 1>>, TRUE)
              THEN << <<x + dx, y + 1>> >> ELSE << >>
        s4 == IF dx # 0 /\ y - 1 >= 0 /\ g[<<x + dx, y - 1>>] = NoPlayer
                 /\ ~any_overlap(ws, pos, <<x + dx, y - 1>>, TRUE)
              THEN << <<x + dx, y - 1>> >> ELSE << >>
    IN  IF ~InBoard(x + dx, y + dy) THEN << >>
        ELSE IF g[<<x + dx, y + dy>>] # NoPlayer
        THEN IF /\ InBoard(x + 2 * dx, y + 2 * dy)
                /\ g[<<x + 2 * dx, y + 2 * dy>>] = NoPlayer
                /\ ~any_overlap(ws, pos, <<x + 2 * dx, y + 2 * dy>>, TRUE)
             THEN << <<x + 2 * dx, y + 2 * dy>> >>
             ELSE s1 \o s2 \o s3 \o s4
        ELSE IF ~any_overlap(ws, pos, <<x + dx, y + dy>>, TRUE)
        THEN << <<x + dx, y + dy>> >>
        ELSE << >>

\* Validator.possible_moves: the list of destinations, in the source's order.
possible_moves(g, ws, pos) ==
    MovesDir(g, ws, pos, DEFAULT[1]) \o MovesDir(g, ws, pos, DEFAULT[2])
      \o MovesDir(g, ws, pos, DEFAULT[3]) \o MovesDir(g, ws, pos, DEFAULT[4])

SeqToSet(s) == {s[i] : i \in 1..Len(s)}

\* ------------------------------------------------------------------ way_exists
\* One({e(x) : x \in {v}}) below is e(v) with v evaluated once and bound to x:
\* TLC may otherwise evaluate a LET definition or an operator's argument again
\* at each of its uses.
One(S) == CHOOSE y \in S : TRUE

\* Validator.way_exists is a recursive depth-first search over self.visited.
\* It is run here as the machine its recursion is: st.stack holds, innermost
\* last, one frame <<node, i>> per active call (i the index in DEFAULT its
\* for-loop tries next), st.visited is self.visited, and st.done / st.ret say
\* whether the outermost call has returned and what.  A True return unwinds
\* every caller at once ("if self.way_exists(end, dest): return True").

\* Entering way_exists(node, dest) from the machine state st.
way_call(st, node, dest) ==
    IF AtGoal(node, dest)
    THEN [st EXCEPT !.done = TRUE, !.ret = TRUE]
    ELSE [st EXCEPT !.visited = @ \cup {node},
                    !.stack = Append(@, <<node, 1>>)]

\* way_exists stepping to a neighbouring cell without the any_overlap test.
way_step_through_walls(ws, st, dest) ==
    LET top == st.stack[Len(st.stack)]
        node == top[1]
        i == top[2]
        end == <<node[1] + DEFAULT[i][1], node[2] + DEFAULT[i][2]>>
        rest == SubSeq(st.stack, 1, Len(st.stack) - 1)
    IN  IF i > 4
        THEN IF Len(rest) = 0
             THEN [st EXCEPT !.stack = rest, !.done = TRUE, !.ret = FALSE]
             ELSE [st EXCEPT !.stack = rest]
        ELSE LET adv == [st EXCEPT !.stack = Append(rest, <<node, i + 1>>)]
             IN  IF /\ InBoard(end[1], end[2])
                    /\ end \notin st.visited
                 THEN way_call(adv, end, dest)
                 ELSE adv

\* One step of the innermost call: try its next direction, or return False.
way_step(ws, st, dest) ==
    LET top == st.stack[Len(st.stack)]
        node == top[1]
        i == top[2]
        end == <<node[1] + DEFAULT[i][1], node[2] + DEFAULT[i][2]>>
        rest == SubSeq(st.stack, 1, Len(st.stack) - 1)
    IN  IF i > 4
        THEN IF Len(rest) = 0
             THEN [st EXCEPT !.stack = rest, !.done = TRUE, !.ret = FALSE]
             ELSE [st EXCEPT !.stack = rest]
        ELSE LET adv == [st EXCEPT !.stack = Append(rest, <<node, i + 1>>)]
             IN  IF /\ InBoard(end[1], end[2])
                    /\ end \notin st.visited
                    /\ ~any_overlap(ws, node, end, TRUE)
                 THEN way_call(adv, end, dest)
                 ELSE adv

\* n steps of the machine (or fewer, when it is done), by halving so that the
\* evaluation depth stays logarithmic.
RECURSIVE way_run(_, _, _, _)
way_run(ws, st, dest, n) ==
    IF st.done \/ n = 0 THEN st
    ELSE IF n = 1 THEN way_step(ws, st, dest)
    ELSE One({way_run(ws, half, dest, n - (n \div 2)) :
              half \in {way_run(ws, st, dest, n \div 2)}})

\* Every cell is entered at most once and each call takes at most five steps.
WaySteps == N * N * 5 + 1

\* Validator.way_exists(node, dest) with self.visited = vis on entry: the
\* answer, and the visited set it leaves behind.
way_exists(ws, vis, node, dest) ==
    One({[ret |-> fin.ret, visited |-> fin.visited] :
         fin \in {way_run(ws, st0, d0, WaySteps) :
                  st0 \in {way_call([stack |-> << >>, visited |-> vis, done |-> FALSE,
                                     ret |-> FALSE], node, dest)},
                  d0 \in {dest}}})

\* ------------------------------------------------------------------ possible_orients
\* The inner loop of possible_orients starting at the second player.
orient_players_from_second(ws, vis, pp, n, i) ==
    [can |-> \A j \in 1..(n - 1) : way_exists(ws, {}, pp[j], WinsOf(n, j)).ret,
     visited |-> way_exists(ws, {}, pp[n - 1], WinsOf(n, n - 1)).visited]

\* The inner loop of possible_orients: "for player in self.players" from index
\* i on, with reset() before each way_exists and the break at the first failure.
RECURSIVE orient_players(_, _, _, _, _)
orient_players(ws, vis, pp, n, i) ==
    IF i >= n THEN [can |-> TRUE, visited |-> vis]
    ELSE One({IF ~r.ret THEN [can |-> FALSE, visited |-> r.visited]
              ELSE orient_players(ws, r.visited, pp, n, i + 1) :
              r \in {way_exists(ws, {}, pp[i], WinsOf(n, i))}})

\* Board.place_wall(pos, orient)
BoardPlaceWall(ws, pos, orient) ==
    Append(ws, Wall(pos, <<pos[1] + 2 * orient[1], pos[2] + 2 * orient[2]>>, FALSE))

\* None, where a cell or a (lattice point, direction) pair is expected.
NoCell == <<0 - 1, 0 - 1>>
NoWall == <<NoCell, <<0, 0>>>>

\* del self.walls[-1]
DelLast(ws) == SubSeq(ws, 1, Len(ws) - 1)

\* possible_orients deleting the candidate only when it passed.
OrientTry_keep_failed(st, pp, n, pos, d) ==
    LET end == <<pos[1] + 2 * d[1], pos[2] + 2 * d[2]>>
    IN  IF /\ 0 - 1 <= end[1] /\ end[1] < N
           /\ 0 - 1 <= end[2] /\ end[2] < N
           /\ ~any_overlap(st.walls, pos, end, FALSE)
        THEN One({One({[ret |-> IF r.can THEN Append(st.ret, d) ELSE st.ret,
                        walls |-> IF r.can THEN DelLast(appended) ELSE appended,
                        visited |-> r.visited] :
                       r \in {orient_players(appended, st.visited, pp, n, 0)}}) :
                  appended \in {Append(st.walls, Wall(pos, end, FALSE))}})
        ELSE st

\* possible_orients with the bounds test 0 <= end < 9.
OrientTry_inner_bounds(st, pp, n, pos, d) ==
    LET end == <<pos[1] + 2 * d[1], pos[2] + 2 * d[2]>>
    IN  IF /\ 0 <= end[1] /\ end[1] < N
           /\ 0 <= end[2] /\ end[2] < N
           /\ ~any_overlap(st.walls, pos, end, FALSE)
        THEN One({One({[ret |-> IF r.can THEN Append(st.ret, d) ELSE st.ret,
                        walls |-> DelLast(appended),
                        visited |-> r.visited] :
                       r \in {orient_players(appended, st.visited, pp, n, 0)}}) :
                  appended \in {Append(st.walls, Wall(pos, end, FALSE))}})
        ELSE st

\* One candidate direction d of possible_orients on the validator state
\* st = [ret, walls, visited]: bounds test, overlap test, append the wall,
\* test every player, delete the wall, record d when it passed.
OrientTry(st, pp, n, pos, d) ==
    LET end == <<pos[1] + 2 * d[1], pos[2] + 2 * d[2]>>
    IN  IF /\ 0 - 1 <= end[1] /\ end[1] < N
           /\ 0 - 1 <= end[2] /\ end[2] < N
           /\ ~any_overlap(st.walls, pos, end, FALSE)
        THEN One({One({[ret |-> IF r.can THEN Append(st.ret, d) ELSE st.ret,
                        walls |-> DelLast(appended),
                        visited |-> r.visited] :
                       r \in {orient_players(appended, st.visited, pp, n, 0)}}) :
                  appended \in {Append(st.walls, Wall(pos, end, FALSE))}})
        ELSE st

\* Validator.possible_orients(pos): the list of legal directions, with the wall
\* list and the visited set as the call leaves them. The four turns of
\* "for dx, dy in DEFAULT", st1 .. st3 the validator state between them.
possible_orients(ws, vis, pp, n, pos) ==
    One({OrientTry(st3, pp, n, pos, DEFAULT[4]) :
         st3 \in {OrientTry(st2, pp, n, pos, DEFAULT[3]) :
         st2 \in {OrientTry(st1, pp, n, pos, DEFAULT[2]) :
         st1 \in {OrientTry([ret |-> << >>, walls |-> ws, visited |-> vis],
                            pp, n, pos, DEFAULT[1])}}}})

\* ------------------------------------------------------------------ possible_walls
\* "for y in range(8): for x in range(8)": the k-th lattice point, k = 1..64.
NumLattice == (N - 1) * (N - 1)
LatticeAt(k) == <<(k - 1) % (N - 1), (k - 1) \div (N - 1)>>

\* One lattice point of the loop of possible_walls on st = [ret, walls, visited].
WallsTry(st, pp, n, pos) ==
    One({[ret |-> IF r.ret # << >> THEN Append(st.ret, pos) ELSE st.ret,
          walls |-> r.walls,
          visited |-> r.visited] :
         r \in {possible_orients(st.walls, st.visited, pp, n, pos)}})

\* The lattice points lo..hi of the loop, in order.
RECURSIVE WallsLoop(_, _, _, _, _)
WallsLoop(st, pp, n, lo, hi) ==
    IF lo > hi THEN st
    ELSE IF lo = hi THEN WallsTry(st, pp, n, LatticeAt(lo))
    ELSE One({WallsLoop(half, pp, n, (lo + hi) \div 2 + 1, hi) :
              half \in {WallsLoop(st, pp, n, lo, (lo + hi) \div 2)}})

\* possible_walls searching the lattice whatever the player's budget.
possible_walls_any_budget(ws, vis, pp, n, rw) ==
    WallsLoop([ret |-> << >>, walls |-> ws, visited |-> vis], pp, n, 1, NumLattice)

\* Validator.possible_walls(player), rw the player's remaining walls.
possible_walls(ws, vis, pp, n, rw) ==
    IF rw = 0 THEN [ret |-> << >>, walls |-> ws, visited |-> vis]
    ELSE WallsLoop([ret |-> << >>, walls |-> ws, visited |-> vis], pp, n, 1, NumLattice)

\* One lattice point of the loop of all_possible_walls: every direction that
\* possible_orients returns, paired with the point.
AllWallsTry(st, pp, n, pos) ==
    One({[ret |-> st.ret \o [k \in 1..Len(r.ret) |-> <<pos, r.ret[k]>>],
          walls |-> r.walls,
          visited |-> r.visited] :
         r \in {possible_orients(st.walls, st.visited, pp, n, pos)}})

RECURSIVE AllWallsLoop(_, _, _, _, _)
AllWallsLoop(st, pp, n, lo, hi) ==
    IF lo > hi THEN st
    ELSE IF lo = hi THEN AllWallsTry(st, pp, n, LatticeAt(lo))
    ELSE One({AllWallsLoop(half, pp, n, (lo + hi) \div 2 + 1, hi) :
              half \in {AllWallsLoop(st, pp, n, lo, (lo + hi) \div 2)}})

\* Validator.all_possible_walls()
all_possible_walls(ws, vis, pp, n) ==
    AllWallsLoop([ret |-> << >>, walls |-> ws, visited |-> vis], pp, n, 1, NumLattice)

\* ------------------------------------------------------------------ bfs
\* bfs putting an unvisited move at the head of the queue instead of its end.
RECURSIVE bfs_moves_stack(_, _, _, _)
bfs_moves_stack(st, moves, depth, k) ==
    IF k > Len(moves) THEN st
    ELSE IF moves[k] \in st.visited THEN bfs_moves_stack(st, moves, depth, k + 1)
    ELSE One({bfs_moves_stack(queued, moves, depth, k + 1) :
              queued \in {[st EXCEPT !.visited = @ \cup {moves[k]},
                                     !.queue = << <<moves[k], depth + 1>> >> \o @]}})

\* "for move in self.possible_moves(curr)" from the k-th move on, on
\* st = [queue, visited, done, ret]: an unvisited move is marked and queued.
RECURSIVE bfs_moves(_, _, _, _)
bfs_moves(st, moves, depth, k) ==
    IF k > Len(moves) THEN st
    ELSE IF moves[k] \in st.visited THEN bfs_moves(st, moves, depth, k + 1)
    ELSE One({bfs_moves(queued, moves, depth, k + 1) :
              queued \in {[st EXCEPT !.visited = @ \cup {moves[k]},
                                     !.queue = Append(@, <<moves[k], depth + 1>>)]}})

\* One turn of "while queue" on st = [queue, visited, done, ret].
bfs_step(g, ws, st, wins) ==
    IF st.queue = << >> THEN [st EXCEPT !.done = TRUE, !.ret = UNREACHABLE]
    ELSE LET curr == Head(st.queue)[1]
             depth == Head(st.queue)[2]
         IN  IF AtGoal(curr, wins)
             THEN [st EXCEPT !.queue = Tail(@), !.done = TRUE, !.ret = depth]
             ELSE One({bfs_moves(popped, moves, d0, 1) :
                       popped \in {[st EXCEPT !.queue = Tail(@)]},
                       moves \in {possible_moves(g, ws, curr)},
                       d0 \in {depth}})

RECURSIVE bfs_run(_, _, _, _, _)
bfs_run(g, ws, st, wins, n) ==
    IF st.done \/ n = 0 THEN st
    ELSE IF n = 1 THEN bfs_step(g, ws, st, wins)
    ELSE One({bfs_run(g, ws, half, wins, n - (n \div 2)) :
              half \in {bfs_run(g, ws, st, wins, n \div 2)}})

\* Every cell is queued at most once, and one more turn finds the queue empty.
BfsSteps == N * N + 1

\* bfs counting the starting cell as one move.
bfs_from_one(g, ws, pos, wins) ==
    One({[ret |-> fin.ret, visited |-> fin.visited] :
         fin \in {bfs_run(g, ws, st0, w0, BfsSteps) :
                  st0 \in {[queue |-> << <<pos, 1>> >>, visited |-> {pos},
                            done |-> FALSE, ret |-> UNREACHABLE]},
                  w0 \in {wins}}})

\* Validator.bfs(pos, wins): the distance, and the visited set it leaves.
bfs(g, ws, pos, wins) ==
    One({[ret |-> fin.ret, visited |-> fin.visited] :
         fin \in {bfs_run(g, ws, st0, w0, BfsSteps) :
                  st0 \in {[queue |-> << <<pos, 0>> >>, visited |-> {pos},
                            done |-> FALSE, ret |-> UNREACHABLE]},
                  w0 \in {wins}}})

\* best_move taking a move that is as good as the best so far.
RECURSIVE best_move_loop_last(_, _, _, _, _, _)
best_move_loop_last(g, ws, st, moves, wins, k) ==
    IF k > Len(moves) THEN st
    ELSE One({best_move_loop_last(g, ws, next, moves, wins, k + 1) :
              next \in {IF r.ret <= st.bscore
                        THEN [bmove |-> moves[k], bscore |-> r.ret, visited |-> r.visited]
                        ELSE [st EXCEPT !.visited = r.visited] :
                        r \in {bfs(g, ws, moves[k], wins)}}})

\* ------------------------------------------------------------------ best_move
\* "for move in moves" from the k-th move on, on st = [bmove, bscore, visited].
RECURSIVE best_move_loop(_, _, _, _, _, _)
best_move_loop(g, ws, st, moves, wins, k) ==
    IF k > Len(moves) THEN st
    ELSE One({best_move_loop(g, ws, next, moves, wins, k + 1) :
              next \in {IF r.ret < st.bscore
                        THEN [bmove |-> moves[k], bscore |-> r.ret, visited |-> r.visited]
                        ELSE [st EXCEPT !.visited = r.visited] :
                        r \in {bfs(g, ws, moves[k], wins)}}})

\* Validator.best_move(start, wins). moves[0] of an empty list raises
\* IndexError: raised is then TRUE and nothing else is meaningful.
best_move(g, ws, vis, start, wins) ==
    One({IF moves = << >>
         THEN [raised |-> TRUE, bmove |-> NoCell, bscore |-> UNREACHABLE, visited |-> vis]
         ELSE One({[raised |-> FALSE, bmove |-> fin.bmove, bscore |-> fin.bscore,
                    visited |-> fin.visited] :
                   fin \in {best_move_loop(g, ws, [bmove |-> moves[1], bscore |-> r.ret,
                                                   visited |-> r.visited], moves, wins, 1) :
                            r \in {bfs(g, ws, moves[1], wins)}}}) :
         moves \in {possible_moves(g, ws, start)}})

\* ------------------------------------------------------------------ best_wall
\* "for player in self.players: if player.position != my_pos: score += bfs(..)"
\* from player i on, on st = [score, visited].
RECURSIVE score_players(_, _, _, _, _, _, _)
score_players(g, ws, st, pp, n, my_pos, i) ==
    IF i >= n THEN st
    ELSE IF pp[i] = my_pos THEN score_players(g, ws, st, pp, n, my_pos, i + 1)
    ELSE One({score_players(g, ws, next, pp, n, my_pos, i + 1) :
              next \in {[score |-> st.score + r.ret, visited |-> r.visited] :
                        r \in {bfs(g, ws, pp[i], WinsOf(n, i))}}})

\* best_wall taking a wall that scores as much as the best so far.
BestWallScored_last(g, st, appended, others, my_pos, win, sample) ==
    One({[bwall |-> IF others.score - mine.ret >= st.bscore THEN sample ELSE st.bwall,
          bscore |-> IF others.score - mine.ret >= st.bscore
                     THEN others.score - mine.ret ELSE st.bscore,
          walls |-> DelLast(appended),
          visited |-> mine.visited] :
         mine \in {bfs(g, appended, my_pos, win)}})

\* One sample of best_wall on st = [bwall, bscore, walls, visited]: append the
\* wall, score it, delete it, keep it when it beats the best so far.
BestWallScored(g, st, appended, others, my_pos, win, sample) ==
    One({[bwall |-> IF others.score - mine.ret > st.bscore THEN sample ELSE st.bwall,
          bscore |-> IF others.score - mine.ret > st.bscore
                     THEN others.score - mine.ret ELSE st.bscore,
          walls |-> DelLast(appended),
          visited |-> mine.visited] :
         mine \in {bfs(g, appended, my_pos, win)}})

BestWallTry(g, st, pp, n, my_pos, win, sample) ==
    One({One({BestWallScored(g, st, appended, others, my_pos, win, sample) :
              others \in {score_players(g, appended, [score |-> 0, visited |-> st.visited],
                                        pp, n, my_pos, 0)}}) :
         appended \in {Append(st.walls,
                              Wall(sample[1], <<sample[1][1] + 2 * sample[2][1],
                                                sample[1][2] + 2 * sample[2][2]>>, FALSE))}})

RECURSIVE BestWallLoop(_, _, _, _, _, _, _, _, _)
BestWallLoop(g, st, pp, n, my_pos, win, samples, lo, hi) ==
    IF lo > hi THEN st
    ELSE IF lo = hi THEN BestWallTry(g, st, pp, n, my_pos, win, samples[lo])
    ELSE One({BestWallLoop(g, half, pp, n, my_pos, win, samples,
                           (lo + hi) \div 2 + 1, hi) :
              half \in {BestWallLoop(g, st, pp, n, my_pos, win, samples, lo,
                                     (lo + hi) \div 2)}})

\* Validator.best_wall(my_pos, win): the best sample (NoWall for None), with
\* the wall list and the visited set as the call leaves them.
best_wall(g, ws, vis, pp, n, my_pos, win) ==
    One({One({[bwall |-> fin.bwall, walls |-> fin.walls, visited |-> fin.visited] :
              fin \in {BestWallLoop(g, [bwall |-> NoWall, bscore |-> 0 - 1000,
                                        walls |-> all_w.walls, visited |-> all_w.visited],
                                    pp, n, my_pos, win, all_w.ret, 1, Len(all_w.ret))}}) :
         all_w \in {all_possible_walls(ws, vis, pp, n)}})

\* ------------------------------------------------------------------ state
VARIABLES
    num_players,      \* Game.num_players
    grid,             \* Board.grid: cell -> player index or NoPlayer
    position,         \* players[i].position
    won,              \* players[i].won
    remaining_walls,  \* players[i].remaining_walls
    walls,            \* Board.walls (the list the Validator shares)
    currplayer,       \* Game.currplayer
    visited,          \* Validator.visited
    bots,             \* isinstance(players[i], Bot)
    state,            \* Quoridor.state
    clicked_pos,      \* Quoridor.clicked_pos (NoPos for None)
    wincol,           \* Quoridor.wincol: index of the winner's colour, NoPlayer for "white"
    running,          \* Quoridor.running
    checked,          \* UImanager.checked
    active,           \* UImanager.active: the list of clickable sprites
    call,             \* the last call a run made on the Game / Validator itself, with its result
    turns             \* number of actions (of new games, in the game loop) so far: bounds the runs

gvars == <<num_players, grid, position, won, remaining_walls, walls, currplayer, bots>>
uvars == <<state, clicked_pos, wincol, running, checked, active>>
vars == <<num_players, grid, position, won, remaining_walls, walls, currplayer,
          visited, bots, state, clicked_pos, wincol, running, checked, active,
          call, turns>>

NoPos == <<0 - 1, 0 - 1>>
NoCall == [op |-> "none"]

\* Game.__init__(num_players): the board, the players and the validator.
GameInit(n) ==
    /\ num_players = n
    /\ grid = [c \in Cells |->
                 IF \E i \in 0..(n - 1) : StartPos(n)[i] = c
                 THEN CHOOSE i \in 0..(n - 1) : StartPos(n)[i] = c
                 ELSE NoPlayer]
    /\ position = StartPos(n)
    /\ won = [i \in 0..(n - 1) |-> FALSE]
    /\ remaining_walls = [i \in 0..(n - 1) |-> StartWalls(n)]
    /\ walls = << >>
    /\ currplayer = 0
    /\ visited = {}
    /\ bots = [i \in 0..(n - 1) |-> FALSE]

\* Board.move leaving the pawn on the cell it came from as well.
BoardMove_keep_source(g, fr, to) ==
    [g EXCEPT ![to] = g[fr]]

\* Board.move(fr, to): grid[to] = grid[fr]; grid[fr] = None, in that order.
BoardMove(g, fr, to) ==
    LET g1 == [g EXCEPT ![to] = g[fr]]
    IN  [g1 EXCEPT ![fr] = NoPlayer]

\* Player.setpos writing the outcome of the goal test into the flag, so that
\* a move off the goal edge clears it.
SetposWon_assign(w, n, i, pos) ==
    [w EXCEPT ![i] = AtGoal(pos, WinsOf(n, i))]

\* Player.setpos: the won flag after moving to pos (set, never cleared).
SetposWon(w, n, i, pos) ==
    IF AtGoal(pos, WinsOf(n, i)) THEN [w EXCEPT ![i] = TRUE] ELSE w

\* The turn passed on two seats instead of one.
NextPlayer_skip(c, n) == (c + 2) % n

\* currplayer += 1; currplayer %= num_players
NextPlayer(c, n) == (c + 1) % n

\* Game.make_move("move", pos)
MakeMoveMove(pos) ==
    /\ grid' = BoardMove(grid, position[currplayer], pos)
    /\ position' = [position EXCEPT ![currplayer] = pos]
    /\ won' = SetposWon(won, num_players, currplayer, pos)
    /\ currplayer' = NextPlayer(currplayer, num_players)
    /\ UNCHANGED <<num_players, remaining_walls, walls, bots>>

\* Game.make_move("wall", ..) charging the wall to every player.
MakeMoveWall_all_budgets(ws, pos, orient) ==
    /\ walls' = BoardPlaceWall(ws, pos, orient)
    /\ remaining_walls' = [i \in 0..(num_players - 1) |-> remaining_walls[i] - 1]
    /\ currplayer' = NextPlayer(currplayer, num_players)
    /\ UNCHANGED <<num_players, grid, position, won, bots>>

\* Game.make_move("wall", pos, orient), on the wall list ws
MakeMoveWall(ws, pos, orient) ==
    /\ walls' = BoardPlaceWall(ws, pos, orient)
    /\ remaining_walls' = [remaining_walls EXCEPT ![currplayer] = @ - 1]
    /\ currplayer' = NextPlayer(currplayer, num_players)
    /\ UNCHANGED <<num_players, grid, position, won, bots>>

\* ------------------------------------------------------------------ the engine, legal play
\* A sprite of UImanager.active: its type and its args (poz for a checkbox,
\* NoPos for None).
Button(type, args) == [type |-> type, args |-> args]
\* [self.button2, self.button4]
MenuButtons == <<Button("MODE", 2), Button("MODE", 4)>>
\* [self.reset, self.quit]
EndButtons == <<Button("RESET", NoPos), Button("QUIT", NoPos)>>

\* Quoridor.__init__ and UImanager.__init__: the application before any event.
QuoridorInit ==
    /\ state = "menu"
    /\ clicked_pos = NoPos
    /\ wincol = NoPlayer
    /\ running = TRUE
    /\ checked = [i \in 0..3 |-> FALSE]
    /\ active = MenuButtons

MaxTurns == 3
\* possible_moves returns at most one destination for a free neighbour and at
\* most two side steps for an occupied one, in each of the four directions.
MaxOffers == 4 * 2
\* Lattice points at which the runs of Spec try to place walls.
WallStarts == {<<3, 1>>, <<4, 1>>}

\* A fresh 2- or 4-player Game.
Init ==
    /\ \E n \in {2, 4} : GameInit(n)
    /\ QuoridorInit
    /\ call = NoCall
    /\ turns = 0

\* The current player moves its pawn to dest, the k-th destination that
\* possible_moves offers for its position.
Move(k) ==
    \E pm \in {possible_moves(grid, walls, position[currplayer])} :
        /\ k <= Len(pm)
        /\ MakeMoveMove(pm[k])
        /\ call' = [op |-> "move", by |-> currplayer, pos |-> pm[k],
                    orient |-> <<0, 0>>, legal |-> TRUE]
        /\ UNCHANGED <<visited, uvars>>

\* The current player asks possible_orients(pos) and places a wall in one of
\* the directions it returned.
PlaceWall(pos) ==
    \E r \in {possible_orients(walls, visited, position, num_players, pos)} :
        /\ \E k \in 1..Len(r.ret) :
              /\ MakeMoveWall(r.walls, pos, r.ret[k])
              /\ call' = [op |-> "wall", by |-> currplayer, pos |-> pos,
                          orient |-> r.ret[k], legal |-> TRUE]
        /\ visited' = r.visited
        /\ UNCHANGED uvars

LegalMove ==
    /\ turns < MaxTurns
    /\ turns' = turns + 1
    /\ \E k \in 1..MaxOffers : Move(k)

LegalWall ==
    /\ turns < MaxTurns
    /\ turns' = turns + 1
    /\ \E pos \in WallStarts : PlaceWall(pos)

Next == LegalMove \/ LegalWall

Spec == Init /\ [][Next]_vars

\* ------------------------------------------------------------------ a long game, narrow play
\* The same engine and the same legal-play rule as Spec, from the same fresh
\* 2-player game, with the players' choices narrowed so that a game of many
\* turns stays within reach: pawns are only moved to cells of Lane, and walls
\* are placed in the order of WallPlan.  Play stops when a player has won.
Lane == {c \in Cells : c[1] = 4} \cup {<<3, 8>>, <<5, 7>>}
WallPlan == << << <<4, 6>>, <<0, 1>> >>, << <<5, 6>>, <<0, 1>> >>,
               << <<3, 6>>, <<1, 0>> >>, << <<0, 0>>, <<1, 0>> >> >>

AnyWon == \E i \in 0..(num_players - 1) : won[i]

InitDeep ==
    /\ GameInit(2)
    /\ QuoridorInit
    /\ call = NoCall
    /\ turns = 0

LaneMove ==
    /\ ~AnyWon
    /\ \E k \in 1..MaxOffers :
          /\ Move(k)
          /\ position'[currplayer] \in Lane
    /\ UNCHANGED turns

PlanWall ==
    /\ ~AnyWon
    /\ Len(walls) < Len(WallPlan)
    /\ PlaceWall(WallPlan[Len(walls) + 1][1])
    /\ call'.orient = WallPlan[Len(walls) + 1][2]
    /\ UNCHANGED turns

NextDeep == LaneMove \/ PlanWall

SpecDeep == InitDeep /\ [][NextDeep]_vars

\* ------------------------------------------------------------------ a pawn in a dead end
\* Legal play as in SpecDeep, pawns kept on the column of their start cells,
\* with the walls of CorridorPlan placed in order: they wall in the cell (4,1)
\* on three sides and close the edge (4,2)-(4,3), leaving the edge (4,2)-(5,2)
\* open.
CorridorCells == {c \in Cells : c[1] = 4}
CorridorPlan == << << <<4, 0>>, <<0 - 1, 0>> >>, << <<3, 2>>, <<0, 0 - 1>> >>,
                   << <<4, 1>>, <<0, 0 - 1>> >>, << <<0, 7>>, <<1, 0>> >>,
                   << <<4, 2>>, <<0 - 1, 0>> >> >>

CorridorMove ==
    /\ ~AnyWon
    /\ \E k \in 1..MaxOffers :
          /\ Move(k)
          /\ position'[currplayer] \in CorridorCells
    /\ UNCHANGED turns

CorridorWall ==
    /\ ~AnyWon
    /\ Len(walls) < Len(CorridorPlan)
    /\ PlaceWall(CorridorPlan[Len(walls) + 1][1])
    /\ call'.orient = CorridorPlan[Len(walls) + 1][2]
    /\ UNCHANGED turns

NextCorridor == CorridorMove \/ CorridorWall

SpecCorridor == InitDeep /\ [][NextCorridor]_vars

\* ------------------------------------------------------------------ make_move called directly
\* Game.make_move is a public method: these runs call it with arguments that
\* need not come from possible_moves / possible_orients.
RawDests == {<<4, 1>>, <<4, 0>>, <<4, 8>>, <<0, 0>>}

\* make_move("move", dest)
RawMove(dest) ==
    /\ turns < MaxTurns
    /\ turns' = turns + 1
    /\ MakeMoveMove(dest)
    /\ call' = [op |-> "move", by |-> currplayer, pos |-> dest, orient |-> <<0, 0>>,
                legal |-> dest \in SeqToSet(possible_moves(grid, walls,
                                                           position[currplayer]))]
    /\ UNCHANGED <<visited, uvars>>

\* make_move("wall", pos, orient)
RawWall(pos, orient) ==
    /\ turns < MaxTurns
    /\ turns' = turns + 1
    /\ MakeMoveWall(walls, pos, orient)
    /\ call' = [op |-> "wall", by |-> currplayer, pos |-> pos, orient |-> orient,
                legal |-> /\ remaining_walls[currplayer] > 0
                          /\ orient \in SeqToSet(possible_orients(walls, visited, position,
                                                                  num_players, pos).ret)]
    /\ UNCHANGED <<visited, uvars>>

\* make_move(type, ...) with a type that is neither "wall" nor "move": neither
\* branch runs.
RawOther ==
    /\ turns < MaxTurns
    /\ turns' = turns + 1
    /\ call' = [op |-> "other", by |-> currplayer, pos |-> NoPos, orient |-> <<0, 0>>,
                legal |-> FALSE]
    /\ UNCHANGED <<gvars, visited, uvars>>

NextRaw ==
    \/ \E dest \in RawDests : RawMove(dest)
    \/ \E pos \in WallStarts : \E orient \in Dirs : RawWall(pos, orient)
    \/ RawOther

SpecRaw == Init /\ [][NextRaw]_vars

\* ------------------------------------------------------------------ the Validator's queries
\* Runs that build a board by legal wall placements, the first MaxPlan of
\* QueryPlan in order, and call the Validator's queries on every board on the
\* way. call records the query, its arguments, the wall list before it and
\* its result.
MaxPlan == 3
QueryPlan == << << <<3, 1>>, <<0, 0 - 1>> >>, << <<4, 1>>, <<0, 0 - 1>> >>,
                << <<3, 2>>, <<1, 0>> >>, << <<0, 0>>, <<1, 0>> >>,
                << <<7, 7>>, <<0, 0 - 1>> >> >>

PlayOps == {"none", "move", "wall"}

PlanStep ==
    /\ Len(walls) < MaxPlan
    /\ Len(walls) < Len(QueryPlan)
    /\ PlaceWall(QueryPlan[Len(walls) + 1][1])
    /\ call'.orient = QueryPlan[Len(walls) + 1][2]
    /\ UNCHANGED turns

\* Game.possible_orients(pos)
QueryOrients(pos) ==
    /\ call.op \in PlayOps
    /\ \E r \in {possible_orients(walls, visited, position, num_players, pos)} :
          /\ walls' = r.walls
          /\ visited' = r.visited
          /\ call' = [op |-> "possible_orients", by |-> currplayer, pos |-> pos,
                      before |-> walls, ret |-> r.ret]
    /\ UNCHANGED <<num_players, grid, position, won, remaining_walls, currplayer, bots,
                   uvars, turns>>

\* Game.possible_walls()
QueryWalls ==
    /\ call.op \in PlayOps
    /\ \E r \in {possible_walls(walls, visited, position, num_players,
                                remaining_walls[currplayer])} :
          /\ walls' = r.walls
          /\ visited' = r.visited
          /\ call' = [op |-> "possible_walls", by |-> currplayer, pos |-> NoCell,
                      before |-> walls, ret |-> r.ret]
    /\ UNCHANGED <<num_players, grid, position, won, remaining_walls, currplayer, bots,
                   uvars, turns>>

\* Validator.all_possible_walls()
QueryAllWalls ==
    /\ call.op \in PlayOps
    /\ \E r \in {all_possible_walls(walls, visited, position, num_players)} :
          /\ walls' = r.walls
          /\ visited' = r.visited
          /\ call' = [op |-> "all_possible_walls", by |-> currplayer, pos |-> NoCell,
                      before |-> walls, ret |-> r.ret]
    /\ UNCHANGED <<num_players, grid, position, won, remaining_walls, currplayer, bots,
                   uvars, turns>>

\* Validator.best_wall(my_pos, win) for the current player, as Bot.make_move
\* calls it.
QueryBestWall ==
    /\ call.op \in PlayOps
    /\ \E r \in {best_wall(grid, walls, visited, position, num_players,
                           position[currplayer], WinsOf(num_players, currplayer))} :
          /\ walls' = r.walls
          /\ visited' = r.visited
          /\ call' = [op |-> "best_wall", by |-> currplayer, pos |-> NoCell,
                      before |-> walls, ret |-> r.bwall]
    /\ UNCHANGED <<num_players, grid, position, won, remaining_walls, currplayer, bots,
                   uvars, turns>>

NextQuery ==
    \/ PlanStep
    \/ \E pos \in Lattice : QueryOrients(pos)
    \/ QueryWalls
    \/ QueryAllWalls
    \/ QueryBestWall

SpecQuery == Init /\ [][NextQuery]_vars

\* ------------------------------------------------------------------ possible_moves as a function
\* Runs that call Validator.possible_moves(pos) on boards of a corner of the
\* grid: the pawns stand on cells drawn from PawnArea (none on its own goal
\* edge), up to MaxBoardWalls walls of WallMenu are placed by legal wall
\* placements, and the query is made for every cell of AskArea, with or
\* without a pawn on it (bfs calls possible_moves for cells of both kinds).
MaxBoardWalls == 2
PawnArea == (0..2) \X (0..2)
InnerArea == (0..1) \X (1..2)
AskArea == (0..2) \X (0..2)
WallMenu == << << <<1, 0>>, <<0 - 1, 0>> >>, << <<1, 1>>, <<0 - 1, 0>> >>,
               << <<0, 1>>, <<0, 0 - 1>> >>, << <<0, 1>>, <<0, 1>> >>,
               << <<1, 1>>, <<0, 0 - 1>> >>, << <<1, 1>>, <<1, 0>> >> >>

\* The pawn positions the runs start from: a 2-player game with both pawns in
\* PawnArea, or a 4-player game with three pawns in InnerArea and the fourth
\* on its starting cell.
PawnDraws(n) ==
    {pp \in [0..(n - 1) -> PawnArea \cup {StartPos(n)[n - 1]}] :
        /\ \A i \in 0..(n - 1) : ~AtGoal(pp[i], WinsOf(n, i))
        /\ \A i, j \in 0..(n - 1) : i # j => pp[i] # pp[j]
        /\ n = 4 => (pp[3] = StartPos(4)[3] /\ \A i \in 0..2 : pp[i] \in InnerArea)
        /\ n = 2 => \A i \in 0..1 : pp[i] \in PawnArea}

\* Board.grid with the pawns on the cells pp.
GridOf(pp, n) ==
    [c \in Cells |-> IF \E i \in 0..(n - 1) : pp[i] = c
                     THEN CHOOSE i \in 0..(n - 1) : pp[i] = c
                     ELSE NoPlayer]

InitMoves ==
    /\ \E n \in {2, 4} : \E pp \in PawnDraws(n) :
          /\ num_players = n
          /\ position = pp
          /\ grid = GridOf(pp, n)
          /\ won = [i \in 0..(n - 1) |-> FALSE]
          /\ remaining_walls = [i \in 0..(n - 1) |-> StartWalls(n)]
          /\ bots = [i \in 0..(n - 1) |-> FALSE]
    /\ walls = << >>
    /\ currplayer = 0
    /\ visited = {}
    /\ QuoridorInit
    /\ call = NoCall
    /\ turns = 0

\* The k-th wall of WallMenu, placed by a legal wall placement; the walls are
\* tried in the menu's order.
BoardWall(k) ==
    /\ call.op \in PlayOps
    /\ turns < MaxBoardWalls
    /\ turns' = turns + 1
    /\ \A j \in k..Len(WallMenu) :
          \A i \in 1..Len(walls) :
              walls[i] # BoardPlaceWall(<< >>, WallMenu[j][1], WallMenu[j][2])[1]
    /\ PlaceWall(WallMenu[k][1])
    /\ call'.orient = WallMenu[k][2]

\* Validator.possible_moves(pos)
QueryMoves(pos) ==
    /\ call.op \in PlayOps
    /\ call' = [op |-> "possible_moves", by |-> currplayer, pos |-> pos,
                before |-> walls, ret |-> possible_moves(grid, walls, pos)]
    /\ UNCHANGED <<gvars, visited, uvars, turns>>

NextMoves ==
    \/ \E k \in 1..Len(WallMenu) : BoardWall(k)
    \/ \E pos \in AskArea : QueryMoves(pos)

SpecMoves == InitMoves /\ [][NextMoves]_vars

\* ------------------------------------------------------------------ overlaps as a function
\* Runs that call Wall.overlaps on a pair of walls, each a wall that
\* possible_orients can be asked about: from a lattice point, in a direction
\* of DEFAULT, with its end inside the bounds possible_orients tests.
OrientInBounds(pos, d) ==
    /\ 0 - 1 <= pos[1] + 2 * d[1] /\ pos[1] + 2 * d[1] < N
    /\ 0 - 1 <= pos[2] + 2 * d[2] /\ pos[2] + 2 * d[2] < N

\* Wall(pos, end) as possible_orients and place_wall construct it.
WallFrom(pos, d) == Wall(pos, <<pos[1] + 2 * d[1], pos[2] + 2 * d[2]>>, FALSE)

\* a.overlaps(b) and b.overlaps(a)
QueryOverlaps(pa, da, pb, db) ==
    /\ call.op = "none"
    /\ OrientInBounds(pa, da)
    /\ OrientInBounds(pb, db)
    /\ call' = [op |-> "overlaps", a |-> WallFrom(pa, da), b |-> WallFrom(pb, db),
                ret |-> overlaps(WallFrom(pa, da), WallFrom(pb, db)),
                rev |-> overlaps(WallFrom(pb, db), WallFrom(pa, da))]
    /\ UNCHANGED <<gvars, visited, uvars, turns>>

NextOverlaps ==
    \E pa, pb \in Lattice : \E da, db \in Dirs : QueryOverlaps(pa, da, pb, db)

SpecOverlaps == InitDeep /\ [][NextOverlaps]_vars

\* ------------------------------------------------------------------ way_exists and bfs as functions
\* Runs that build a board by the legal wall placements of PathPlan, in order,
\* and call Validator.way_exists and Validator.bfs for a cell of PathStarts and
\* a player's goal, on the wall list as it is or as possible_orients has it
\* while it tests a candidate of PathCands (the candidate appended, after the
\* bounds and overlap tests, whether or not it leaves every player a way).
\* The first two walls of PathPlan stand on either side of player 0's column;
\* the last two close the cells (0,0) and (0,1), where no pawn stands, off
\* from the rest of the board.
PathPlan == << << <<3, 1>>, <<0, 0 - 1>> >>, << <<4, 1>>, <<0, 0 - 1>> >>,
               << <<0, 1>>, <<0, 0 - 1>> >>, << <<1, 1>>, <<0 - 1, 0>> >> >>
PathStarts == ((3..5) \X (0..2)) \cup {<<0, 0>>, <<0, 1>>, <<0, 2>>, <<1, 1>>}
PathCands == {NoWall} \cup ({<<3, 1>>, <<4, 1>>} \X Dirs)

\* self.walls with the candidate c appended.
WithCand(ws, c) == IF c = NoWall THEN ws ELSE Append(ws, WallFrom(c[1], c[2]))

\* The tests of possible_orients before it appends the candidate c.
CandTested(ws, c) ==
    \/ c = NoWall
    \/ (/\ OrientInBounds(c[1], c[2])
        /\ ~any_overlap(ws, c[1], <<c[1][1] + 2 * c[2][1], c[1][2] + 2 * c[2][2]>>, FALSE))

\* self.reset(); self.way_exists(start, players[i].wins)
QueryWay(c, start, i) ==
    /\ call.op \in PlayOps
    /\ CandTested(walls, c)
    /\ \E r \in {way_exists(WithCand(walls, c), {}, start, WinsOf(num_players, i))} :
          /\ visited' = r.visited
          /\ call' = [op |-> "way_exists", by |-> i, pos |-> start,
                      before |-> WithCand(walls, c), ret |-> r.ret]
    /\ UNCHANGED <<gvars, uvars, turns>>

\* self.bfs(start, players[i].wins)
QueryBfs(c, start, i) ==
    /\ call.op \in PlayOps
    /\ CandTested(walls, c)
    /\ \E r \in {bfs(grid, WithCand(walls, c), start, WinsOf(num_players, i))} :
          /\ visited' = r.visited
          /\ call' = [op |-> "bfs", by |-> i, pos |-> start,
                      before |-> WithCand(walls, c), ret |-> r.ret]
    /\ UNCHANGED <<gvars, uvars, turns>>

PathStep ==
    /\ Len(walls) < Len(PathPlan)
    /\ PlaceWall(PathPlan[Len(walls) + 1][1])
    /\ call'.orient = PathPlan[Len(walls) + 1][2]
    /\ UNCHANGED turns

NextPaths ==
    \/ PathStep
    \/ \E c \in PathCands : \E start \in PathStarts : \E i \in 0..(num_players - 1) :
          QueryWay(c, start, i)
    \/ \E c \in PathCands : \E start \in PathStarts : \E i \in 0..(num_players - 1) :
          QueryBfs(c, start, i)

SpecPaths == InitDeep /\ [][NextPaths]_vars

\* ------------------------------------------------------------------ a player out of walls
\* A 2-player game in which player 0 places the walls of SpendPlan, one each
\* turn and each by a legal wall placement, until its budget is spent, while
\* player 1 moves its pawn to and fro between the cells of Pacing. On every
\* board on the way the runs call possible_walls for the player to act and
\* possible_orients at the lattice points of SpendAsks.
SpendPlan == << << <<0, 2>>, <<1, 0>> >>, << <<2, 2>>, <<1, 0>> >>, << <<4, 2>>, <<1, 0>> >>,
                << <<0, 4>>, <<1, 0>> >>, << <<2, 4>>, <<1, 0>> >>, << <<4, 4>>, <<1, 0>> >>,
                << <<0, 6>>, <<1, 0>> >>, << <<2, 6>>, <<1, 0>> >>, << <<4, 6>>, <<1, 0>> >>,
                << <<7, 0>>, <<0, 1>> >> >>
Pacing == {<<4, 7>>, <<4, 8>>}
SpendAsks == {<<0, 2>>, <<1, 2>>, <<6, 2>>, <<7, 0>>}

\* Player 0's turn: the next wall of SpendPlan.
SpendWall ==
    /\ currplayer = 0
    /\ Len(walls) < Len(SpendPlan)
    /\ PlaceWall(SpendPlan[Len(walls) + 1][1])
    /\ call'.orient = SpendPlan[Len(walls) + 1][2]
    /\ UNCHANGED turns

\* Player 1's turn: a move that possible_moves offers, within Pacing.
PacingMove ==
    /\ currplayer = 1
    /\ \E k \in 1..MaxOffers :
          /\ Move(k)
          /\ position'[1] \in Pacing
    /\ UNCHANGED turns

NextSpend ==
    \/ SpendWall
    \/ PacingMove
    \/ QueryWalls
    \/ \E pos \in SpendAsks : QueryOrients(pos)

SpecSpend == InitDeep /\ [][NextSpend]_vars

\* ------------------------------------------------------------------ one query after another
\* Runs that call Validator.way_exists and Validator.bfs as the methods they
\* are, one after another on the same Validator: a first query for a cell of
\* AgainStarts (way_exists on the Validator as Game.__init__ or the last wall
\* placement left it, or bfs), then way_exists again with self.visited as the
\* first query left it, no reset() between the two. The boards are those of
\* PathPlan.
AgainStarts == {<<4, 0>>, <<4, 8>>, <<0, 0>>, <<0, 2>>}

\* self.way_exists(start, players[i].wins), self.visited as it is
BareWay(start, i) ==
    \E r \in {way_exists(walls, visited, start, WinsOf(num_players, i))} :
        /\ visited' = r.visited
        /\ call' = [op |-> IF call.op \in PlayOps THEN "way_exists" ELSE "way_exists_again",
                    by |-> i, pos |-> start, before |-> walls, ret |-> r.ret]
        /\ UNCHANGED <<gvars, uvars, turns>>

FirstWay(start, i) ==
    /\ call.op \in PlayOps
    /\ BareWay(start, i)

FirstBfs(start, i) ==
    /\ call.op \in PlayOps
    /\ QueryBfs(NoWall, start, i)

WayAgain(start, i) ==
    /\ call.op \in {"way_exists", "bfs"}
    /\ BareWay(start, i)

NextAgain ==
    \/ PathStep
    \/ \E start \in AgainStarts : \E i \in 0..(num_players - 1) : FirstWay(start, i)
    \/ \E start \in AgainStarts : \E i \in 0..(num_players - 1) : FirstBfs(start, i)
    \/ \E start \in AgainStarts : \E i \in 0..(num_players - 1) : WayAgain(start, i)

SpecAgain == InitDeep /\ [][NextAgain]_vars

\* ------------------------------------------------------------------ best_move as a function
\* Runs that build a board by the legal wall placements of PathPlan and call
\* Validator.best_move for a cell of PathStarts and a player's goal.

\* self.best_move(start, players[i].wins)
QueryBestMove(start, i) ==
    /\ call.op \in PlayOps
    /\ \E r \in {best_move(grid, walls, visited, start, WinsOf(num_players, i))} :
          /\ visited' = r.visited
          /\ call' = [op |-> "best_move", by |-> i, pos |-> start, before |-> walls,
                      raised |-> r.raised, ret |-> r.bmove, score |-> r.bscore]
    /\ UNCHANGED <<gvars, uvars, turns>>

NextBest ==
    \/ PathStep
    \/ \E start \in PathStarts : \E i \in 0..(num_players - 1) : QueryBestMove(start, i)

SpecBest == InitDeep /\ [][NextBest]_vars

\* ------------------------------------------------------------------ the game loop
\* Quoridor.game_loop, one action per turn of "while self.running": the win
\* check, the bot's move or the event that UImanager.get returns, the match on
\* its type, and the display of the resulting state. The application is
\* threaded through these steps as one record of all its fields.
App ==
    [num_players |-> num_players, grid |-> grid, position |-> position, won |-> won,
     remaining_walls |-> remaining_walls, walls |-> walls, currplayer |-> currplayer,
     visited |-> visited, bots |-> bots, state |-> state, clicked_pos |-> clicked_pos,
     wincol |-> wincol, running |-> running, checked |-> checked, active |-> active]

\* The application is left as the record a.
Becomes(a) ==
    /\ num_players' = a.num_players
    /\ grid' = a.grid
    /\ position' = a.position
    /\ won' = a.won
    /\ remaining_walls' = a.remaining_walls
    /\ walls' = a.walls
    /\ currplayer' = a.currplayer
    /\ visited' = a.visited
    /\ bots' = a.bots
    /\ state' = a.state
    /\ clicked_pos' = a.clicked_pos
    /\ wincol' = a.wincol
    /\ running' = a.running
    /\ checked' = a.checked
    /\ active' = a.active

\* self.game = Game(n, ...): a fresh board, fresh players, a fresh validator.
Game(a, n) ==
    [a EXCEPT !.num_players = n,
              !.grid = [c \in Cells |->
                          IF \E i \in 0..(n - 1) : StartPos(n)[i] = c
                          THEN CHOOSE i \in 0..(n - 1) : StartPos(n)[i] = c
                          ELSE NoPlayer],
              !.position = StartPos(n),
              !.won = [i \in 0..(n - 1) |-> FALSE],
              !.remaining_walls = [i \in 0..(n - 1) |-> StartWalls(n)],
              !.walls = << >>,
              !.currplayer = 0,
              !.visited = {},
              !.bots = [i \in 0..(n - 1) |-> FALSE]]

\* Game.make_move(type, pos, orient) on the record a.
make_move(a, type, pos, orient) ==
    IF type = "wall"
    THEN [a EXCEPT !.walls = BoardPlaceWall(a.walls, pos, orient),
                   !.remaining_walls = [@ EXCEPT ![a.currplayer] = @ - 1],
                   !.currplayer = NextPlayer(a.currplayer, a.num_players)]
    ELSE IF type = "move"
    THEN [a EXCEPT !.grid = BoardMove(a.grid, a.position[a.currplayer], pos),
                   !.position = [@ EXCEPT ![a.currplayer] = pos],
                   !.won = SetposWon(a.won, a.num_players, a.currplayer, pos),
                   !.currplayer = NextPlayer(a.currplayer, a.num_players)]
    ELSE a

\* Game.setbots(b): every player i with b[i] is replaced by a new Bot at its
\* starting position, with its starting walls and won = False.
setbots(a, b) ==
    [a EXCEPT !.bots = [i \in 0..(a.num_players - 1) |-> a.bots[i] \/ b[i]],
              !.position = [i \in 0..(a.num_players - 1) |->
                              IF b[i] THEN StartPos(a.num_players)[i] ELSE a.position[i]],
              !.remaining_walls = [i \in 0..(a.num_players - 1) |->
                                     IF b[i] THEN StartWalls(a.num_players)
                                     ELSE a.remaining_walls[i]],
              !.won = [i \in 0..(a.num_players - 1) |-> ~b[i] /\ a.won[i]]]

\* The win check with the line "self.wincol = player.colour" left out.
win_check_no_wincol(a) ==
    LET W == {i \in 0..(a.num_players - 1) : a.won[i]}
    IN  IF W = {} THEN a
        ELSE LET i == CHOOSE i \in W : \A j \in W : i <= j
             IN  [a EXCEPT !.state = "endgame",
                           !.won = [@ EXCEPT ![i] = FALSE]]

\* "for player in self.game.players: if player.won: ...; break": the first
\* player whose flag is set ends the game, and the flag is taken back.
win_check(a) ==
    LET W == {i \in 0..(a.num_players - 1) : a.won[i]}
    IN  IF W = {} THEN a
        ELSE LET i == CHOOSE i \in W : \A j \in W : i <= j
             IN  [a EXCEPT !.state = "endgame",
                           !.wincol = i,
                           !.won = [@ EXCEPT ![i] = FALSE]]

\* UImanager.display_game(game): a move button for every move of the current
\* player, then a wallchoose button for every lattice point possible_walls
\* returns.
display_game(a) ==
    One({[a EXCEPT !.active = [k \in 1..Len(moves) |-> Button("move", moves[k])]
                              \o [k \in 1..Len(r.ret) |-> Button("wallchoose", r.ret[k])],
                   !.walls = r.walls,
                   !.visited = r.visited] :
         moves \in {possible_moves(a.grid, a.walls, a.position[a.currplayer])},
         r \in {possible_walls(a.walls, a.visited, a.position, a.num_players,
                               a.remaining_walls[a.currplayer])}})

\* UImanager.display_orientations(game, pos): the game's buttons, then an
\* orient button for every direction possible_orients(pos) returns. pos = None
\* raises TypeError in Wall.__init__, which ends the loop.
display_orientations(a, pos) ==
    One({IF pos = NoPos THEN [d EXCEPT !.running = FALSE]
         ELSE One({[d EXCEPT !.active = @ \o [k \in 1..Len(r.ret) |->
                                                Button("orient", r.ret[k])],
                             !.walls = r.walls,
                             !.visited = r.visited] :
                   r \in {possible_orients(d.walls, d.visited, d.position,
                                           d.num_players, pos)}}) :
         d \in {display_game(a)}})

\* UImanager.choose_bots(howmuch): one checkbox per player.
choose_bots(a, howmuch) ==
    [a EXCEPT !.active = [k \in 1..howmuch |-> Button("checkbox", k - 1)]]

\* "match self.state" at the end of the turn.
display(a) ==
    CASE a.state = "menu" -> [a EXCEPT !.active = MenuButtons]
      [] a.state = "gamef" -> display_game(a)
      [] a.state = "gamec" -> display_orientations(a, a.clicked_pos)
      [] a.state = "endgame" -> [a EXCEPT !.active = EndButtons]
      [] a.state = "botc" -> choose_bots(a, a.num_players)
      [] OTHER -> a

\* "match type" in the middle of the turn.
match_type(a, type, args) ==
    CASE type = "QUIT" -> [a EXCEPT !.running = FALSE]
      [] type = "MODE" -> [Game(a, args) EXCEPT !.state = "botc"]
      [] type = "START" ->
            IF a.state = "botc" THEN [setbots(a, a.checked) EXCEPT !.state = "gamef"]
            ELSE a
      [] type = "RESET" -> [a EXCEPT !.state = "menu"]
      [] type = "move" -> [make_move(a, "move", args, NoPos) EXCEPT !.state = "gamef"]
      [] type = "wallchoose" ->
            IF args = a.clicked_pos
            THEN [a EXCEPT !.clicked_pos = NoPos, !.state = "gamef"]
            ELSE [a EXCEPT !.clicked_pos = args, !.state = "gamec"]
      [] type = "orient" ->
            [make_move(a, "wall", a.clicked_pos, args) EXCEPT !.state = "gamef"]
      [] type = "STANDBY" ->
            IF a.state \in {"gamec", "gamef"} THEN [a EXCEPT !.state = "standby"] ELSE a
      [] type = "endtodelete" -> [a EXCEPT !.state = "endgame"]
      [] OTHER -> a

\* The rest of the turn once type and args are known.
Iteration(a, type, args) ==
    One({display(m) : m \in {match_type(a, type, args)}})

\* self.state == "gamef" and isinstance(players[currplayer], Bot)
BotToMove(a) == a.state = "gamef" /\ a.bots[a.currplayer]

\* Bot.make_move() of the current player, draw standing for random() > 0.75.
\* raised: best_move found no move (IndexError), or best_wall returned None,
\* on which game_loop's args[0] raises TypeError.
Bot_make_move(a, draw) ==
    IF a.remaining_walls[a.currplayer] # 0 /\ draw
    THEN One({[type |-> "orient", args |-> r.bwall, raised |-> r.bwall = NoWall,
               walls |-> r.walls, visited |-> r.visited] :
              r \in {best_wall(a.grid, a.walls, a.visited, a.position, a.num_players,
                               a.position[a.currplayer],
                               WinsOf(a.num_players, a.currplayer))}})
    ELSE One({[type |-> "move", args |-> r.bmove, raised |-> r.raised,
               walls |-> a.walls, visited |-> r.visited] :
              r \in {best_move(a.grid, a.walls, a.visited, a.position[a.currplayer],
                               WinsOf(a.num_players, a.currplayer))}})

\* Games that a run constructs with the menu's buttons.
MaxGames == 1
\* Where the runs click: the menu's buttons, the checkboxes, the cells, the
\* lattice points and the directions.
ModeClicks == {2}
CheckClicks == {0, 1}
ClickCells == {<<4, 8>>}
WallClicks == {<<0, 0>>}
OrientClicks == {<<1, 0>>}

\* The runs let a bot's draw exceed 0.75 on the opening turn of a game only.
Opening(a) == a.walls = << >> /\ a.position = StartPos(a.num_players)

\* The runs stop once the board is back on screen with a pawn on its goal
\* edge and no flag left to check: the game was played on after its end.
PlayedOn ==
    /\ state \in {"gamef", "gamec", "standby"}
    /\ \A i \in 0..(num_players - 1) : ~won[i]
    /\ \E i \in 0..(num_players - 1) : AtGoal(position[i], WinsOf(num_players, i))

\* The runs close the window and press SPACE on every screen but the board's,
\* where either costs a redisplay of the same buttons.
OffBoard == state \notin {"gamef", "gamec"}

\* A turn of the loop in which the current player is a Bot.
BotTurn(draw) ==
    /\ running
    /\ ~PlayedOn
    /\ \E a0 \in {win_check(App)} :
          /\ BotToMove(a0)
          /\ draw => (a0.remaining_walls[a0.currplayer] # 0 /\ Opening(a0))
          /\ \E m \in {Bot_make_move(a0, draw)} :
                \E a1 \in {[a0 EXCEPT !.walls = m.walls, !.visited = m.visited]} :
                   IF m.raised
                   THEN Becomes([a1 EXCEPT !.running = FALSE])
                   ELSE IF m.type = "orient"
                   THEN \E a \in {Iteration([a1 EXCEPT !.clicked_pos = m.args[1]],
                                            "orient", m.args[2])} : Becomes(a)
                   ELSE \E a \in {Iteration(a1, "move", m.args)} : Becomes(a)
    /\ UNCHANGED <<call, turns>>

\* A turn of the loop in which UImanager.get() returns (type, args) and
\* leaves self.checked as chk.
UiTurn(type, args, chk) ==
    /\ running
    /\ ~PlayedOn
    /\ \E a0 \in {win_check(App)} :
          /\ ~BotToMove(a0)
          /\ \E a \in {Iteration([a0 EXCEPT !.checked = chk], type, args)} : Becomes(a)
    /\ UNCHANGED call

\* A click on the place of button b: sprite.rect.collidepoint(pos) holds for
\* a sprite of self.active with b's type and args.
Hit(b) ==
    \E k \in 1..Len(active) : active[k].type = b.type /\ active[k].args = b.args

\* py.QUIT
Quit == OffBoard /\ UiTurn("QUIT", NoPos, checked) /\ UNCHANGED turns
\* K_SPACE
KeySpace == OffBoard /\ UiTurn("START", NoPos, checked) /\ UNCHANGED turns
\* K_ESCAPE
KeyEscape == UiTurn("endtodelete", NoPos, checked) /\ UNCHANGED turns
\* No event, or a click that hits no active sprite.
NoEvent == UiTurn("STANDBY", NoPos, checked) /\ UNCHANGED turns

\* A click on a checkbox flips self.checked[poz]; get() goes on and returns
\* STANDBY.
ClickCheckbox(i) ==
    /\ Hit(Button("checkbox", i))
    /\ UiTurn("STANDBY", NoPos, [checked EXCEPT ![i] = ~@])
    /\ UNCHANGED turns

ClickMode(n) ==
    /\ turns < MaxGames
    /\ turns' = turns + 1
    /\ Hit(Button("MODE", n))
    /\ UiTurn("MODE", n, checked)

ClickReset ==
    Hit(Button("RESET", NoPos)) /\ UiTurn("RESET", NoPos, checked) /\ UNCHANGED turns

ClickQuit ==
    Hit(Button("QUIT", NoPos)) /\ UiTurn("QUIT", NoPos, checked) /\ UNCHANGED turns

ClickMove(c) ==
    Hit(Button("move", c)) /\ UiTurn("move", c, checked) /\ UNCHANGED turns

ClickWallchoose(p) ==
    Hit(Button("wallchoose", p)) /\ UiTurn("wallchoose", p, checked) /\ UNCHANGED turns

ClickOrient(d) ==
    Hit(Button("orient", d)) /\ UiTurn("orient", d, checked) /\ UNCHANGED turns

\* Quoridor(): the 2-player Game of __init__ behind the menu; turns counts the
\* games constructed since.
InitLoop ==
    /\ GameInit(2)
    /\ QuoridorInit
    /\ call = NoCall
    /\ turns = 0

NextLoop ==
    \/ \E draw \in BOOLEAN : BotTurn(draw)
    \/ Quit
    \/ KeySpace
    \/ KeyEscape
    \/ NoEvent
    \/ \E i \in CheckClicks : ClickCheckbox(i)
    \/ \E n \in ModeClicks : ClickMode(n)
    \/ ClickReset
    \/ ClickQuit
    \/ \E c \in ClickCells : ClickMove(c)
    \/ \E p \in WallClicks : ClickWallchoose(p)
    \/ \E d \in OrientClicks : ClickOrient(d)

SpecLoop == InitLoop /\ [][NextLoop]_vars

\* ------------------------------------------------------------------ spending the wall budget
\* A 2-player game in which player 0, a human or a Bot, places walls until it
\* has none left, and player 1 moves to and fro within PacingCells. The human is
\* offered a wall as the screens offer it: a lattice point that possible_walls
\* returns for it (display_game), then a direction that possible_orients
\* returns there (display_orientations); it tries the walls of BudgetPlan in
\* order, one more than its budget. The Bot acts through Bot.make_move; the
\* runs let its draw exceed 0.75 every turn, and stop after its MaxBotMoves-th
\* pawn move.
MaxBotMoves == 1
BudgetPlan == SpendPlan \o << << <<7, 2>>, <<0, 1>> >> >>
BudgetAsks == {<<0, 2>>, <<7, 2>>}
PacingCells == {<<4, 7>>, <<4, 8>>, <<3, 8>>}

InitBudget ==
    /\ GameInit(2)
    /\ QuoridorInit
    /\ call = NoCall
    /\ turns = 0

\* Game.setbots with player 0 checked, before the first turn.
BudgetSetBot ==
    /\ call.op = "none"
    /\ ~bots[0]
    /\ bots' = [bots EXCEPT ![0] = TRUE]
    /\ call' = [op |-> "setbots"]
    /\ UNCHANGED <<num_players, grid, position, won, remaining_walls, walls, currplayer,
                   visited, uvars, turns>>

\* The human player 0 clicks a lattice point and a direction that the screens
\* offer it.
OfferedWall ==
    /\ currplayer = 0
    /\ ~bots[0]
    /\ call.op \in {"none", "move"}
    /\ Len(walls) < Len(BudgetPlan)
    /\ \E pw \in {possible_walls(walls, visited, position, num_players,
                                 remaining_walls[currplayer])} :
          /\ BudgetPlan[Len(walls) + 1][1] \in SeqToSet(pw.ret)
          /\ \E r \in {possible_orients(pw.walls, pw.visited, position, num_players,
                                        BudgetPlan[Len(walls) + 1][1])} :
                /\ BudgetPlan[Len(walls) + 1][2] \in SeqToSet(r.ret)
                /\ MakeMoveWall(r.walls, BudgetPlan[Len(walls) + 1][1],
                                BudgetPlan[Len(walls) + 1][2])
                /\ visited' = r.visited
    /\ call' = [op |-> "wall", by |-> currplayer, pos |-> BudgetPlan[Len(walls) + 1][1],
                orient |-> BudgetPlan[Len(walls) + 1][2], legal |-> TRUE]
    /\ UNCHANGED <<uvars, turns>>

\* The Bot player 0 acts on what Bot.make_move returns.
BotSpends ==
    /\ currplayer = 0
    /\ bots[0]
    /\ call.op \in {"setbots", "move"}
    /\ turns < MaxBotMoves
    /\ \E m \in {Bot_make_move(App, TRUE)} :
          /\ ~m.raised
          /\ visited' = m.visited
          /\ IF m.type = "orient"
             THEN /\ MakeMoveWall(m.walls, m.args[1], m.args[2])
                  /\ call' = [op |-> "wall", by |-> currplayer, pos |-> m.args[1],
                              orient |-> m.args[2], legal |-> TRUE]
                  /\ UNCHANGED turns
             ELSE /\ MakeMoveMove(m.args)
                  /\ call' = [op |-> "botmove", by |-> currplayer, pos |-> m.args,
                              orient |-> <<0, 0>>, legal |-> TRUE]
                  /\ turns' = turns + 1
    /\ UNCHANGED uvars

\* Player 1's turn: a move that possible_moves offers, within PacingCells.
BudgetPacing ==
    /\ currplayer = 1
    /\ call.op \in {"wall", "botmove"}
    /\ \E k \in 1..MaxOffers :
          /\ Move(k)
          /\ position'[1] \in PacingCells
    /\ UNCHANGED turns

\* Game.possible_orients(pos), asked between two turns.
BudgetAsk(pos) ==
    /\ call.op \in {"wall", "move"}
    /\ QueryOrients(pos)

NextBudget ==
    \/ BudgetSetBot
    \/ OfferedWall
    \/ BotSpends
    \/ BudgetPacing
    \/ \E pos \in BudgetAsks : BudgetAsk(pos)

SpecBudget == InitBudget /\ [][NextBudget]_vars

\* ------------------------------------------------------------------ geometry of the claims
\* Stated from the rules of the game, independently of Wall.overlaps: a wall
\* blocks the step between two orthogonally adjacent cells a and b when the
\* midpoint of their common edge lies strictly inside the wall's segment.
\* (In doubled coordinates that midpoint is a + b.)
Blocks(w, a, b) ==
    LET m == <<a[1] + b[1], a[2] + b[2]>>
    IN  \/ (w.start[1] = m[1] /\ w.end[1] = m[1] /\ w.start[2] < m[2] /\ m[2] < w.end[2])
        \/ (w.start[2] = m[2] /\ w.end[2] = m[2] /\ w.start[1] < m[1] /\ m[1] < w.end[1])

Adjacent(a, b) ==
    \/ (a[1] = b[1] /\ (a[2] = b[2] + 1 \/ b[2] = a[2] + 1))
    \/ (a[2] = b[2] /\ (a[1] = b[1] + 1 \/ b[1] = a[1] + 1))

Neighbours(c) ==
    {d \in {<<c[1] - 1, c[2]>>, <<c[1] + 1, c[2]>>, <<c[1], c[2] - 1>>, <<c[1], c[2] + 1>>} :
        InBoard(d[1], d[2])}

\* One wall-respecting orthogonal step from a cell of S.
StepFrom(ws, S) ==
    {d \in UNION {Neighbours(c) : c \in S} :
        \E c \in S : Adjacent(c, d) /\ \A i \in 1..Len(ws) : ~Blocks(ws[i], c, d)}

\* The cells reachable from the cells of S by wall-respecting steps.
RECURSIVE Reach(_, _, _)
Reach(ws, S, frontier) ==
    IF frontier = {} THEN S
    ELSE LET new == StepFrom(ws, frontier) \ S
         IN  Reach(ws, S \cup new, new)

\* The cells of player i's goal edge.
GoalCells(n, i) == {c \in Cells : AtGoal(c, WinsOf(n, i))}

HasPath(ws, n, i, c) == Reach(ws, {c}, {c}) \cap GoalCells(n, i) # {}

\* C1: in every reachable state of legal play every player has a
\* wall-respecting path of orthogonal steps from its cell to its goal edge.
C1_Connectivity ==
    \A i \in 0..(num_players - 1) : HasPath(walls, num_players, i, position[i])

\* C2: immediately after a wall that possible_orients offered has been placed,
\* way_exists (from a reset visited set) is true for every player, from its
\* position to its own goal condition.
C2_WayExistsAfterWall ==
    (call.op = "wall" /\ call.legal) =>
        \A i \in 0..(num_players - 1) :
            way_exists(walls, {}, position[i], WinsOf(num_players, i)).ret

\* The wall from lattice point pos in direction d lies within the lattice.
WallInLattice(pos, d) ==
    /\ pos[1] + 2 * d[1] \in (0 - 1)..(N - 1)
    /\ pos[2] + 2 * d[2] \in (0 - 1)..(N - 1)

\* The segment of the wall from lattice point pos in direction d (doubled).
Segment(pos, d) ==
    LET a == <<2 * pos[1] + 1, 2 * pos[2] + 1>>
        b == <<a[1] + 4 * d[1], a[2] + 4 * d[2]>>
    IN  IF a[1] < b[1] \/ a[2] < b[2] THEN [start |-> a, end |-> b]
        ELSE [start |-> b, end |-> a]

Horizontal(w) == w.start[2] = w.end[2]
Vertical(w) == w.start[1] = w.end[1]
Max(a, b) == IF a > b THEN a ELSE b
Min(a, b) == IF a < b THEN a ELSE b

\* Two walls overlap, as the rules mean it: identical, or collinear with a
\* shared portion of positive length, or perpendicular and crossing at their
\* common midpoint.
GeoOverlap(a, b) ==
    \/ a = b
    \/ (/\ Horizontal(a) /\ Horizontal(b) /\ a.start[2] = b.start[2]
        /\ Max(a.start[1], b.start[1]) < Min(a.end[1], b.end[1]))
    \/ (/\ Vertical(a) /\ Vertical(b) /\ a.start[1] = b.start[1]
        /\ Max(a.start[2], b.start[2]) < Min(a.end[2], b.end[2]))
    \/ (/\ ((Horizontal(a) /\ Vertical(b)) \/ (Vertical(a) /\ Horizontal(b)))
        /\ a.start[1] + a.end[1] = b.start[1] + b.end[1]
        /\ a.start[2] + a.end[2] = b.start[2] + b.end[2])

\* C2's case: a wall has just been placed at a lattice point where another
\* direction, in the lattice and overlapping nothing, was refused because it
\* would have cut a player off.
C2_Witness ==
    /\ call.op = "wall" /\ call.legal
    /\ \E d \in Dirs :
          /\ WallInLattice(call.pos, d)
          /\ \A i \in 1..(Len(walls) - 1) : ~GeoOverlap(Segment(call.pos, d), walls[i])
          /\ \E i \in 0..(num_players - 1) :
                ~HasPath(Append(DelLast(walls), Segment(call.pos, d)), num_players, i,
                         position[i])

\* C3: no two walls of the placed-wall list overlap each other.
C3_NoTwoWallsOverlap ==
    \A i, j \in 1..Len(walls) : i < j => ~GeoOverlap(walls[i], walls[j])

\* C3's case: the last wall was placed where another offered-for candidate of
\* the same lattice point would have overlapped an earlier wall, and it touches
\* an earlier wall without overlapping it.
C3_Witness ==
    /\ call.op = "wall" /\ call.legal /\ Len(walls) >= 2
    /\ \E d \in Dirs : \E i \in 1..(Len(walls) - 1) :
          WallInLattice(call.pos, d) /\ GeoOverlap(Segment(call.pos, d), walls[i])
    /\ \E i \in 1..(Len(walls) - 1) :
          {walls[i].start, walls[i].end}
              \cap {walls[Len(walls)].start, walls[Len(walls)].end} # {}

\* C10: every applied action is one action (one pawn of the acting player
\* moved, or one wall appended) and passes the turn to the next player in the
\* cyclic order 0, 1, .., n-1, 0.
C10_TurnOrder ==
    [][(gvars' # gvars) =>
        /\ currplayer' = IF currplayer = num_players - 1 THEN 0 ELSE currplayer + 1
        /\ \/ (/\ Len(walls') = Len(walls) + 1
               /\ DelLast(walls') = walls
               /\ position' = position)
           \/ (/\ walls' = walls
               /\ \A i \in 0..(num_players - 1) :
                     i # currplayer => position'[i] = position[i])]_vars

\* C10's case: the turn has gone round and come back to player 0.
C10_Witness ==
    call.op \in {"move", "wall"} /\ currplayer = 0 /\ call.by = num_players - 1

\* C6: a pawn move to a destination that possible_moves does not offer for the
\* current player's position is rejected, with the grid, the positions, the won
\* flags, the walls, the budgets and the current player all unchanged.
C6_IllegalMoveRejected ==
    [][(turns' # turns /\ call'.op = "move" /\ ~call'.legal) =>
        UNCHANGED <<grid, position, won, walls, remaining_walls, currplayer>>]_vars

\* C7: a wall placement that possible_orients does not offer, or any wall
\* placement by a player whose budget is 0, is rejected: no wall appended, no
\* budget decremented, the current player not advanced.
C7_IllegalWallRejected ==
    [][(turns' # turns /\ call'.op = "wall" /\ ~call'.legal) =>
        UNCHANGED <<walls, remaining_walls, currplayer>>]_vars

\* The wall from lattice point pos in direction d lies on the board: both ends
\* of its segment are within the outline of the 9 x 9 board (in doubled
\* coordinates the outline runs from 0 - 1 to 2 * N - 1).
WallOnBoard(pos, d) ==
    LET w == Segment(pos, d)
    IN  /\ {w.start[1], w.start[2], w.end[1], w.end[2]} \subseteq (0 - 1)..(2 * N - 1)

\* With the wall from pos in direction d added to ws, some player has no
\* path to its goal.
CutsOff(ws, pos, d) ==
    \E i \in 0..(num_players - 1) :
        ~HasPath(Append(ws, Segment(pos, d)), num_players, i, position[i])

\* C4: possible_orients(pos) returns direction d if and only if the wall from
\* pos in direction d lies on the board, overlaps no placed wall, and leaves
\* every player a path from its position to its goal.
C4_OrientsExactlyLegal ==
    call.op = "possible_orients" =>
        \A d \in Dirs :
            d \in SeqToSet(call.ret) <=>
                /\ WallOnBoard(call.pos, d)
                /\ \A i \in 1..Len(call.before) :
                      ~GeoOverlap(Segment(call.pos, d), call.before[i])
                /\ ~CutsOff(call.before, call.pos, d)

\* C4's case: possible_orients has left out a direction whose wall lies on the
\* board and overlaps nothing, because it would cut a player off.
C4_Witness ==
    /\ call.op = "possible_orients"
    /\ \E d \in Dirs :
          /\ d \notin SeqToSet(call.ret)
          /\ WallOnBoard(call.pos, d)
          /\ \A i \in 1..Len(call.before) :
                ~GeoOverlap(Segment(call.pos, d), call.before[i])
          /\ CutsOff(call.before, call.pos, d)

\* C5: when possible_orients, possible_walls, all_possible_walls or best_wall
\* returns, the wall list is the list that existed before the call.
C5_SpeculationInvisible ==
    call.op \in {"possible_orients", "possible_walls", "all_possible_walls", "best_wall"}
        => walls = call.before

\* C5's case: best_wall has returned on a board with placed walls on which
\* some candidate fails the connectivity test.
C5_Witness ==
    /\ call.op = "best_wall"
    /\ Len(call.before) >= 2
    /\ walls = call.before
    /\ \E pos \in WallStarts : \E d \in Dirs :
          /\ WallOnBoard(pos, d)
          /\ \A i \in 1..Len(call.before) : ~GeoOverlap(Segment(pos, d), call.before[i])
          /\ CutsOff(call.before, pos, d)

\* Some pawn stands on its goal edge: its move there set its won flag.
GameOver ==
    \E i \in 0..(num_players - 1) : AtGoal(position[i], WinsOf(num_players, i))

\* C8: once a pawn has reached its goal edge and its won flag was set, no turn
\* of the game loop applies a pawn move or a wall to that game: the grid, the
\* positions, the walls, the budgets and the current player stay as they are
\* until a new game is constructed.
C8_NoPlayAfterWin ==
    [][(GameOver /\ turns' = turns) =>
          UNCHANGED <<grid, position, walls, remaining_walls, currplayer>>]_vars

C11_WallFrame ==
    [][(turns' # turns /\ call'.op = "wall") =>
          /\ Len(walls') = Len(walls) + 1
          /\ \A k \in 1..Len(walls) : walls'[k] = walls[k]
          /\ walls'[Len(walls')] = Segment(call'.pos, call'.orient)
          /\ remaining_walls'[currplayer] = remaining_walls[currplayer] - 1
          /\ \A i \in 0..(num_players - 1) :
                i # currplayer => remaining_walls'[i] = remaining_walls[i]
          /\ grid' = grid
          /\ position' = position
          /\ won' = won]_vars

\* C11's case: a wall has just been placed on a board that held one already.
C11_Witness ==
    call.op = "wall" /\ Len(walls) >= 2

\* The goal condition of player i in a game of n, from the rules: the edge
\* opposite the one it starts on.
OppositeEdge(n, i, c) ==
    LET s == StartPos(n)[i]
    IN  IF s[2] \in {0, N - 1} THEN c[2] = N - 1 - s[2] ELSE c[1] = N - 1 - s[1]

\* C12: a pawn move sets the mover's won flag when the destination is on its
\* goal edge, leaves the flag as it was when it is not, and changes no other
\* player's flag, no wall and no budget.
C12_MoveSetsWon ==
    [][(turns' # turns /\ call'.op = "move") =>
          /\ won'[currplayer] =
                (won[currplayer] \/ OppositeEdge(num_players, currplayer, call'.pos))
          /\ \A i \in 0..(num_players - 1) : i # currplayer => won'[i] = won[i]
          /\ walls' = walls
          /\ remaining_walls' = remaining_walls]_vars

\* C12's case: a player that has won has just moved off its goal edge, and
\* its flag is still set.
C12_Witness ==
    /\ call.op = "move"
    /\ won[call.by]
    /\ ~OppositeEdge(num_players, call.by, position[call.by])

\* C13: every position that possible_moves(p) returns has both coordinates in
\* 0..8, differs from p and holds no pawn (neither in the grid nor as any
\* player's position); so a neighbouring cell with a pawn on it is never
\* returned.
C13_MovesFree ==
    call.op = "possible_moves" =>
        \A k \in 1..Len(call.ret) :
            /\ call.ret[k][1] \in 0..8 /\ call.ret[k][2] \in 0..8
            /\ call.ret[k] # call.pos
            /\ grid[call.ret[k]] = NoPlayer
            /\ \A i \in 0..(num_players - 1) : position[i] # call.ret[k]

\* A query from a pawn's cell with another pawn next to it, answered with a
\* jump over that pawn.
C13_Witness ==
    /\ call.op = "possible_moves"
    /\ \E i, j \in 0..(num_players - 1) :
          /\ i # j /\ position[i] = call.pos /\ Adjacent(position[i], position[j])
          /\ \E k \in 1..Len(call.ret) :
                call.ret[k] = <<2 * position[j][1] - call.pos[1],
                                2 * position[j][2] - call.pos[2]>>

\* The two cells next to the neighbour nb of a pawn, on the axis perpendicular
\* to the direction d in which nb lies.
SideCells(nb, d) ==
    IF d[1] = 0 THEN {<<nb[1] + 1, nb[2]>>, <<nb[1] - 1, nb[2]>>}
    ELSE {<<nb[1], nb[2] + 1>>, <<nb[1], nb[2] - 1>>}

Diagonal(a, b) ==
    (a[1] = b[1] + 1 \/ b[1] = a[1] + 1) /\ (a[2] = b[2] + 1 \/ b[2] = a[2] + 1)

\* C14: a side step (a cell diagonal to the pawn's cell) is returned by
\* possible_moves(pos) only if it is on the board, holds no pawn, and is the
\* side cell of a neighbour of pos that holds another pawn, with no wall on
\* the edge between that neighbour and the side cell.
C14_SideStepUnblocked ==
    (call.op = "possible_moves" /\ grid[call.pos] # NoPlayer) =>
        \A k \in 1..Len(call.ret) :
            Diagonal(call.pos, call.ret[k]) =>
                /\ InBoard(call.ret[k][1], call.ret[k][2])
                /\ grid[call.ret[k]] = NoPlayer
                /\ \E d \in Dirs :
                      /\ InBoard(call.pos[1] + d[1], call.pos[2] + d[2])
                      /\ grid[<<call.pos[1] + d[1], call.pos[2] + d[2]>>] # NoPlayer
                      /\ call.ret[k] \in SideCells(<<call.pos[1] + d[1], call.pos[2] + d[2]>>, d)
                      /\ \A i \in 1..Len(walls) :
                            ~Blocks(walls[i], <<call.pos[1] + d[1], call.pos[2] + d[2]>>,
                                    call.ret[k])

\* The cell at k steps from pos in direction d.
Ahead(pos, d, k) == <<pos[1] + k * d[1], pos[2] + k * d[2]>>

\* The neighbour of the pawn on pos in direction d holds another pawn, and the
\* cell behind it is on the board, holds no pawn, and no wall of ws lies
\* between the neighbour and that cell.
JumpOpen(g, ws, pos, d) ==
    /\ g[pos] # NoPlayer
    /\ InBoard(Ahead(pos, d, 1)[1], Ahead(pos, d, 1)[2])
    /\ g[Ahead(pos, d, 1)] # NoPlayer
    /\ InBoard(Ahead(pos, d, 2)[1], Ahead(pos, d, 2)[2])
    /\ g[Ahead(pos, d, 2)] = NoPlayer
    /\ \A i \in 1..Len(ws) : ~Blocks(ws[i], Ahead(pos, d, 1), Ahead(pos, d, 2))

\* C15, as claimed: when the neighbour of pos in a direction holds another
\* pawn and the cell two steps away is on the board, free, and not walled off
\* from the neighbour, possible_moves(pos) contains that cell.
C15_JumpOffered ==
    call.op = "possible_moves" =>
        \A d \in Dirs :
            JumpOpen(grid, walls, call.pos, d) =>
                \E k \in 1..Len(call.ret) : call.ret[k] = Ahead(call.pos, d, 2)

\* C15, amended: the same, when in addition no wall lies between pos and the
\* neighbour.
C15_JumpOfferedUnlessWalledFromNeighbour ==
    call.op = "possible_moves" =>
        \A d \in Dirs :
            (/\ JumpOpen(grid, walls, call.pos, d)
             /\ \A i \in 1..Len(walls) : ~Blocks(walls[i], call.pos, Ahead(call.pos, d, 1))) =>
                \E k \in 1..Len(call.ret) : call.ret[k] = Ahead(call.pos, d, 2)

\* A jump that is open and not walled off from the mover, on a board with
\* walls, has been asked for.
C15_Witness ==
    /\ call.op = "possible_moves"
    /\ walls # << >>
    /\ \E d \in Dirs :
          /\ JumpOpen(grid, walls, call.pos, d)
          /\ \A i \in 1..Len(walls) : ~Blocks(walls[i], call.pos, Ahead(call.pos, d, 1))

\* C16: for every pair of placeable walls a, b: a.overlaps(b) = b.overlaps(a).
C16_OverlapsSymmetric ==
    call.op = "overlaps" => call.ret = call.rev

\* Two different collinear walls that overlap have been compared, the one
\* that starts further along given first.
C16_Witness ==
    /\ call.op = "overlaps"
    /\ call.a # call.b
    /\ call.ret
    /\ Horizontal(call.a) /\ Horizontal(call.b)
    /\ call.a.start[1] > call.b.start[1]

\* Two collinear walls share more than a point.
SharePortion(a, b) ==
    \/ (/\ Horizontal(a) /\ Horizontal(b) /\ a.start[2] = b.start[2]
        /\ \E x \in (0 - 1)..(2 * N) :
              /\ a.start[1] <= x /\ x + 1 <= a.end[1]
              /\ b.start[1] <= x /\ x + 1 <= b.end[1])
    \/ (/\ Vertical(a) /\ Vertical(b) /\ a.start[1] = b.start[1]
        /\ \E y \in (0 - 1)..(2 * N) :
              /\ a.start[2] <= y /\ y + 1 <= a.end[2]
              /\ b.start[2] <= y /\ y + 1 <= b.end[2])

\* The horizontal wall h and the vertical wall v cross at a point interior to
\* both.
CrossInside(h, v) ==
    /\ Horizontal(h) /\ Vertical(v)
    /\ h.start[1] < v.start[1] /\ v.start[1] < h.end[1]
    /\ v.start[2] < h.start[2] /\ h.start[2] < v.end[2]

\* C17: a.overlaps(b) is true exactly when a and b are identical, or collinear
\* with spans sharing more than a point, or perpendicular and crossing at a
\* point interior to both; it is false when they only touch (a T or an L).
C17_OverlapsExactly ==
    call.op = "overlaps" =>
        (call.ret <=> \/ call.a = call.b
                      \/ SharePortion(call.a, call.b)
                      \/ CrossInside(call.a, call.b)
                      \/ CrossInside(call.b, call.a))

\* A T: the end of one wall on the midpoint of a perpendicular wall, found
\* not to overlap.
C17_Witness ==
    /\ call.op = "overlaps"
    /\ ~call.ret
    /\ Vertical(call.a) /\ Horizontal(call.b)
    /\ call.a.start[2] = call.b.start[2]
    /\ call.a.start[1] * 2 = call.b.start[1] + call.b.end[1]

\* C18: with the visited set reset, way_exists(start, goal) is true exactly
\* when some sequence of orthogonal steps between cells of the board, none of
\* them across a wall, pawns ignored, leads from start to a cell of the goal.
C18_WayExistsIffPath ==
    call.op = "way_exists" =>
        (call.ret <=> HasPath(call.before, num_players, call.by, call.pos))

\* way_exists has answered False from a cell with somewhere to go: walled in
\* together with at least one other cell.
C18_Witness ==
    /\ call.op = "way_exists"
    /\ ~call.ret
    /\ Cardinality(Reach(call.before, {call.pos}, {call.pos})) >= 2

\* The least number of moves, each to a cell that possible_moves offers from
\* the cell before it on the board g with the walls ws, that leads from a cell
\* of frontier to a cell satisfying wins, plus k; UNREACHABLE when there is
\* none. seen holds the cells at k moves or fewer, frontier those at exactly k.
RECURSIVE MovesDist(_, _, _, _, _, _)
MovesDist(g, ws, wins, seen, frontier, k) ==
    IF frontier = {} THEN UNREACHABLE
    ELSE IF \E c \in frontier : AtGoal(c, wins) THEN k
    ELSE One({MovesDist(g, ws, wins, seen \cup new, new, k + 1) :
              new \in {UNION {SeqToSet(possible_moves(g, ws, c)) : c \in frontier} \ seen}})

\* C19: bfs(pos, goal) returns the least number of moves, each taken from
\* possible_moves on the current board, that reaches a cell of the goal, and
\* 1000000 exactly when no sequence of such moves does; on a board without
\* walls bfs((4,0)) for the goal row 8 is 8.
C19_BfsShortest ==
    call.op = "bfs" =>
        /\ call.ret = MovesDist(grid, call.before, WinsOf(num_players, call.by),
                                {call.pos}, {call.pos}, 0)
        /\ (call.before = << >> /\ call.pos = <<4, 0>> /\ call.by = 0) => call.ret = 8

\* bfs has measured a way that walls make longer than the straight one.
C19_Witness ==
    /\ call.op = "bfs"
    /\ call.by = 0
    /\ call.ret < UNREACHABLE
    /\ call.ret > 8 - call.pos[2]

\* C20: bfs(pos, goal) returns 0 exactly when pos already satisfies the goal.
C20_BfsZeroIffAtGoal ==
    call.op = "bfs" =>
        (call.ret = 0 <=> AtGoal(call.pos, WinsOf(num_players, call.by)))

\* bfs has been asked from a cell of the goal edge, on a board with walls.
C20_Witness ==
    /\ call.op = "bfs"
    /\ call.before # << >>
    /\ call.pos \in GoalCells(num_players, call.by)
    /\ call.ret = 0

\* C21: possible_walls(player) returns the empty list when the player has no
\* walls left, and otherwise exactly the lattice points (x, y) of 0..7 x 0..7
\* at which possible_orients returns a direction.
C21_PossibleWalls ==
    call.op = "possible_walls" =>
        IF remaining_walls[call.by] = 0 THEN call.ret = << >>
        ELSE /\ \A k \in 1..Len(call.ret) : call.ret[k] \in (0..7) \X (0..7)
             /\ \A p \in (0..7) \X (0..7) :
                   (\E k \in 1..Len(call.ret) : call.ret[k] = p)
                       <=> possible_orients(call.before, {}, position, num_players, p).ret # << >>

\* possible_walls has been asked for the player that has spent its last wall,
\* on a board where lattice points still admit a wall.
C21_Witness ==
    /\ call.op = "possible_walls"
    /\ remaining_walls[call.by] = 0
    /\ call.ret = << >>
    /\ \E p \in SpendAsks :
          possible_orients(call.before, {}, position, num_players, p).ret # << >>

\* C22: while the human players place only walls that possible_walls and
\* possible_orients offer them and the Bots act through Bot.make_move, every
\* player's remaining_walls is at least 0 and at most its starting budget
\* (10 of 2 players, 5 of 4).
C22_BudgetInRange ==
    \A i \in 0..(num_players - 1) :
        /\ remaining_walls[i] >= 0
        /\ remaining_walls[i] <= (IF num_players = 2 THEN 10 ELSE 5)

\* The human player 0 has no wall left and is to act, where the next wall it
\* would try is one that possible_orients still admits.
C22_Witness ==
    /\ ~bots[0]
    /\ currplayer = 0
    /\ remaining_walls[0] = 0
    /\ BudgetPlan[Len(walls) + 1][2] \in
           SeqToSet(possible_orients(walls, {}, position, num_players,
                                     BudgetPlan[Len(walls) + 1][1]).ret)

\* C23: in every state of legal play the grid and the players agree: the cell
\* at players[i].position holds player i, every other cell is empty, no two
\* players stand on the same cell, and as many cells are occupied as there are
\* players.
C23_GridAgrees ==
    /\ \A i \in 0..(num_players - 1) : grid[position[i]] = i
    /\ \A c \in Cells :
          grid[c] # NoPlayer => \E i \in 0..(num_players - 1) : position[i] = c
    /\ \A i, j \in 0..(num_players - 1) : i # j => position[i] # position[j]
    /\ Cardinality({c \in Cells : grid[c] # NoPlayer}) = num_players

\* A pawn has just moved and stands next to the other pawn, away from both
\* starting cells, on a board with walls.
C23_Witness ==
    /\ call.op = "move"
    /\ walls # << >>
    /\ Adjacent(position[0], position[1])
    /\ \A i \in 0..1 : position[i] # StartPos(2)[i]

\* C24: all_possible_walls() never holds two (lattice point, direction)
\* entries that denote the same wall segment.
C24_NoDuplicateSegments ==
    call.op = "all_possible_walls" =>
        \A j, k \in 1..Len(call.ret) :
            j < k => Segment(call.ret[j][1], call.ret[j][2])
                         # Segment(call.ret[k][1], call.ret[k][2])

\* C25: way_exists called after earlier way_exists and bfs calls returns what
\* it returns when it is the first call on the same board: a way exists
\* exactly when the walls leave one.
C25_WayExistsIgnoresHistory ==
    call.op = "way_exists_again" =>
        (call.ret <=> HasPath(call.before, num_players, call.by, call.pos))

\* The least number of moves from cell c to player i's goal on the current
\* board with the walls ws.
DistFrom(ws, c, i) ==
    MovesDist(grid, ws, WinsOf(num_players, i), {c}, {c}, 0)

\* C26: best_move(start, goal) returns a member of possible_moves(start) whose
\* distance to the goal is least among the members, and of several such
\* members the one that comes first in the order of possible_moves.
C26_BestMoveFirstMinimal ==
    (call.op = "best_move" /\ ~call.raised) =>
        \E moves \in {possible_moves(grid, call.before, call.pos)} :
            \E k \in 1..Len(moves) :
                /\ moves[k] = call.ret
                /\ call.score = DistFrom(call.before, moves[k], call.by)
                /\ \A j \in 1..Len(moves) :
                      DistFrom(call.before, moves[j], call.by) >= call.score
                /\ \A j \in 1..(k - 1) :
                      DistFrom(call.before, moves[j], call.by) > call.score

\* best_move has chosen between two moves of the same least distance, on a
\* board with walls where a third move is farther from the goal.
C26_Witness ==
    /\ call.op = "best_move"
    /\ ~call.raised
    /\ call.before # << >>
    /\ \E moves \in {possible_moves(grid, call.before, call.pos)} :
          /\ \E j \in 1..Len(moves) :
                /\ moves[j] # call.ret
                /\ DistFrom(call.before, moves[j], call.by) = call.score
          /\ \E j \in 1..Len(moves) :
                DistFrom(call.before, moves[j], call.by) > call.score

\* The sum of the distances to their goals of the players from i on, the
\* player by left out, with the walls ws.
RECURSIVE OthersDist(_, _, _)
OthersDist(ws, by, i) ==
    IF i >= num_players THEN 0
    ELSE (IF i = by THEN 0 ELSE DistFrom(ws, position[i], i)) + OthersDist(ws, by, i + 1)

\* The score of the entry e = <<lattice point, direction>> for the player by:
\* with the wall e added to ws, the distances of the other players to their
\* goals, summed, less the distance of by to its own.
WallScore(ws, by, e) ==
    One({OthersDist(placed, by, 0) - DistFrom(placed, position[by], by) :
         placed \in {Append(ws, Segment(e[1], e[2]))}})

PawnAhead(g, pos, d) ==
    /\ g[pos] # NoPlayer
    /\ InBoard(Ahead(pos, d, 1)[1], Ahead(pos, d, 1)[2])
    /\ g[Ahead(pos, d, 1)] # NoPlayer

\* A wall of ws lies between pos and its neighbour in direction d.
WalledOff(ws, pos, d) ==
    \E i \in 1..Len(ws) : Blocks(ws[i], pos, Ahead(pos, d, 1))

\* C28: when a wall lies between pos and a neighbouring cell that holds
\* another pawn, possible_moves(pos) returns neither the jump over that pawn
\* nor a side step around it (a side cell of that pawn is returned only as the
\* side cell of another neighbouring pawn that no wall separates from pos).
C28_NoMoveThroughWall ==
    call.op = "possible_moves" =>
        \A d \in Dirs :
            (PawnAhead(grid, call.pos, d) /\ WalledOff(walls, call.pos, d)) =>
                \A k \in 1..Len(call.ret) :
                    /\ call.ret[k] # Ahead(call.pos, d, 2)
                    /\ call.ret[k] \in SideCells(Ahead(call.pos, d, 1), d) =>
                          \E e \in Dirs \ {d} :
                              /\ PawnAhead(grid, call.pos, e)
                              /\ ~WalledOff(walls, call.pos, e)
                              /\ call.ret[k] \in SideCells(Ahead(call.pos, e, 1), e)

\* C29: in a 2-player game reached by legal moves and wall placements in which
\* no pawn stands on its goal edge, possible_moves returns at least one cell
\* for the position of the player to move, and best_move for that position
\* does not raise.
C29_MoverHasMove ==
    (num_players = 2 /\ ~GameOver) =>
        /\ possible_moves(grid, walls, position[currplayer]) # << >>
        /\ ~best_move(grid, walls, visited, position[currplayer],
                      WinsOf(num_players, currplayer)).raised

====
